---------------------------- MODULE Spec2Model ----------------------------
(***************************************************************************)
(* A model of spHelper (src/src/spHelper.js, with the transpiled           *)
(* src/build/spHelper.js where the two differ): the CAML query built by    *)
(* loadListData, the paging loop of getListData, and the column mapping of *)
(* updateListItem / addListItem.                                           *)
(*                                                                         *)
(* JavaScript values are records tagged with the constructor name, each    *)
(* constructor with its own payload field: Num(7), Str(s), Arr(a).         *)
(* A JavaScript string is the sequence of its characters; concatenation    *)
(* is \o.                                                                  *)
(***************************************************************************)
EXTENDS Integers, Sequences, FiniteSets, TLC

VARIABLES
    queryDetails,   \* the caller's descriptor objects, by object identity
    pc,             \* per call: "idle", "waiting" (a request is out), "done"
    kind,           \* per call: which entry point started it
    qdOf,           \* per call: the descriptor object the call was given
    listData,       \* per call: getListData's accumulator
    pending,        \* per call: the executeQueryAsync requests not yet answered
    sent,           \* per call: every request issued so far, in order
    received,       \* per call: the size of every page handed to the success callback
    answers,        \* per call: what the store answered, request by request
    given,          \* per call: pagePosition of the descriptor when the call started
    userSuccess,    \* per call: the arguments of the caller's success callback
    userFailure,    \* per call: the arguments of the caller's failure callback
    thrown,         \* per call: exceptions that left the library
    itemDetails,    \* the descriptor given to addListItem / updateListItem
    writeOp,        \* the write operation that was called, "none" before
    writePc,        \* "idle", "threw", "sent" (request outstanding) or "done"
    spItem,         \* the spItem.set_item calls of the write, in order
    itemUpdated,    \* spItem.update() was called
    writeThrown,    \* exceptions that left the write operation
    writeSuccess,   \* the argument lists of the caller's success callback
    writeFailure,   \* the argument lists of the caller's failure callback
    searchPc,       \* searchUsers: "idle", "searching", "resolved", "rejected"
    queryString,    \* searchUsers: the search term set on the people picker query
    found,          \* searchUsers: results, the parsed search results
    lookups,        \* searchUsers: the getUserProfile requests not yet answered
    started,        \* searchUsers: the user ids getUserProfile was called with, in order
    fired,          \* searchUsers: the lookups answered so far, with what they returned
    userList,       \* searchUsers: the profiles collected by buildUserList
    promised,       \* searchUsers: the profile promises that are resolved
    searchSuccess,  \* searchUsers: the arguments of onSuccessUser, call by call
    searchFailure,  \* searchUsers: the arguments of onFailureUser, call by call
    scriptLoaded,   \* the page: sp.ui.dialog.js is loaded
    ribbon,         \* the page: the state of the ribbon, its Edit tab, the selected tab
    ribbonPc,       \* per removeEdit call: "idle", "delayed", "settled"
    attempts,       \* per removeEdit call: the attempts left
    editRemoved,    \* per removeEdit call: the flag of the same name
    seen,           \* per removeEdit call: the ribbon state each attempt found
    ribbonResolved, \* per removeEdit call: how often resolve was called
    ribbonRejected  \* per removeEdit call: the reasons reject was called with

writeVars == <<itemDetails, writeOp, writePc, spItem, itemUpdated, writeThrown,
               writeSuccess, writeFailure>>

pagingVars == <<queryDetails, pc, kind, qdOf, listData, pending, sent, received,
                answers, given, userSuccess, userFailure, thrown>>

searchVars == <<searchPc, queryString, found, lookups, started, fired, userList,
                promised, searchSuccess, searchFailure>>

ribbonVars == <<scriptLoaded, ribbon, ribbonPc, attempts, editRemoved, seen,
                ribbonResolved, ribbonRejected>>

-----------------------------------------------------------------------------
(* JavaScript values *)

Undefined == [t |-> "Undefined"]
Null      == [t |-> "Null"]
Num(n)    == [t |-> "Number", num |-> n]
Str(s)    == [t |-> "String", str |-> s]
Arr(a)    == [t |-> "Array", arr |-> a]

IsUndefined(x) == x.t = "Undefined"

-----------------------------------------------------------------------------
(* Bounds and program constants *)

PageCap     == 5000
MaxRequests == 3

Calls   == {1, 2}
Objects == {1, 2}

-----------------------------------------------------------------------------
(* String literals of the source, one character per element *)

\* <View Scope='RecursiveAll'>
sViewOpen ==
    <<"<","V","i","e","w"," ","S","c","o","p","e","=","'","R","e","c","u","r",
      "s","i","v","e","A","l","l","'",">">>

\* <ViewFields>
sViewFieldsOpen ==
    <<"<","V","i","e","w","F","i","e","l","d","s",">">>

\* <FieldRef Name='
sFieldRefName ==
    <<"<","F","i","e","l","d","R","e","f"," ","N","a","m","e","=","'">>

\* ' />
sFieldRefEnd ==
    <<"'"," ","/",">">>

\* </ViewFields>
sViewFieldsClose ==
    <<"<","/","V","i","e","w","F","i","e","l","d","s",">">>

\* <Query> <Where>
sQueryWhereOpen ==
    <<"<","Q","u","e","r","y",">"," ","<","W","h","e","r","e",">">>

\* <
sLt ==
    <<"<">>

\* >
sGt ==
    <<">">>

\* </
sLtSlash ==
    <<"<","/">>

\* ' LookupId='TRUE'/> <Value Type='
sLookupIdValueType ==
    <<"'"," ","L","o","o","k","u","p","I","d","=","'","T","R","U","E","'","/",
      ">"," ","<","V","a","l","u","e"," ","T","y","p","e","=","'">>

\* '/> <Value Type='
sPlainValueType ==
    <<"'","/",">"," ","<","V","a","l","u","e"," ","T","y","p","e","=","'">>

\* '>
sQuoteGt ==
    <<"'",">">>

\* </Value>
sValueClose ==
    <<"<","/","V","a","l","u","e",">">>

\* <Or>
sOrOpen ==
    <<"<","O","r",">">>

\* <In> <FieldRef Name='
sInFieldRefName ==
    <<"<","I","n",">"," ","<","F","i","e","l","d","R","e","f"," ","N","a","m",
      "e","=","'">>

\* ' /> <Values>
sFieldRefEndValues ==
    <<"'"," ","/",">"," ","<","V","a","l","u","e","s",">">>

\* <Value Type='
sValueType ==
    <<"<","V","a","l","u","e"," ","T","y","p","e","=","'">>

\* </Values></In>
sValuesInClose ==
    <<"<","/","V","a","l","u","e","s",">","<","/","I","n",">">>

\*  <FieldRef Name='
sSpFieldRefName ==
    <<" ","<","F","i","e","l","d","R","e","f"," ","N","a","m","e","=","'">>

\* ' LookupId='TRUE'/>
sLookupIdEnd ==
    <<"'"," ","L","o","o","k","u","p","I","d","=","'","T","R","U","E","'","/",
      ">">>

\* <Values>
sValuesOpen ==
    <<"<","V","a","l","u","e","s",">">>

\* </Values>
sValuesClose ==
    <<"<","/","V","a","l","u","e","s",">">>

\* </Or>
sOrClose ==
    <<"<","/","O","r",">">>

\* </Where></Query>
sWhereQueryClose ==
    <<"<","/","W","h","e","r","e",">","<","/","Q","u","e","r","y",">">>

\* \n                    <Joins>\n                        <Join Type="
sJoinType ==
    <<"\n"," "," "," "," "," "," "," "," "," "," "," "," "," "," "," "," ",
      " "," "," "," ","<","J","o","i","n","s",">","\n"," "," "," "," "," ",
      " "," "," "," "," "," "," "," "," "," "," "," "," "," "," "," "," "," ",
      " ","<","J","o","i","n"," ","T","y","p","e","=","\"">>

\* " ListAlias="
sListAlias ==
    <<"\""," ","L","i","s","t","A","l","i","a","s","=","\"">>

\* ">\n                            <Eq>\n                                <FieldRef Name="
sJoinEqFieldRef ==
    <<"\"",">","\n"," "," "," "," "," "," "," "," "," "," "," "," "," "," ",
      " "," "," "," "," "," "," "," "," "," "," "," "," "," ","<","E","q",">",
      "\n"," "," "," "," "," "," "," "," "," "," "," "," "," "," "," "," ",
      " "," "," "," "," "," "," "," "," "," "," "," "," "," "," "," ","<","F",
      "i","e","l","d","R","e","f"," ","N","a","m","e","=","\"">>

\* " RefType="Id" />\n                                <FieldRef Name="ID" List="
sRefTypeIdList ==
    <<"\""," ","R","e","f","T","y","p","e","=","\"","I","d","\""," ","/",">",
      "\n"," "," "," "," "," "," "," "," "," "," "," "," "," "," "," "," ",
      " "," "," "," "," "," "," "," "," "," "," "," "," "," "," "," ","<","F",
      "i","e","l","d","R","e","f"," ","N","a","m","e","=","\"","I","D","\"",
      " ","L","i","s","t","=","\"">>

\* " />\n                            </Eq>\n                        </Join>\n                    </Joins>
sJoinClose ==
    <<"\""," ","/",">","\n"," "," "," "," "," "," "," "," "," "," "," "," ",
      " "," "," "," "," "," "," "," "," "," "," "," "," "," "," "," ","<","/",
      "E","q",">","\n"," "," "," "," "," "," "," "," "," "," "," "," "," ",
      " "," "," "," "," "," "," "," "," "," "," ","<","/","J","o","i","n",">",
      "\n"," "," "," "," "," "," "," "," "," "," "," "," "," "," "," "," ",
      " "," "," "," ","<","/","J","o","i","n","s",">">>

\* <ProjectedFields>
sProjectedFieldsOpen ==
    <<"<","P","r","o","j","e","c","t","e","d","F","i","e","l","d","s",">">>

\* <Field ShowField="
sFieldShowField ==
    <<"<","F","i","e","l","d"," ","S","h","o","w","F","i","e","l","d","=","\"">>

\* " Type="Lookup" Name="
sTypeLookupName ==
    <<"\""," ","T","y","p","e","=","\"","L","o","o","k","u","p","\""," ","N",
      "a","m","e","=","\"">>

\* " List="
sList ==
    <<"\""," ","L","i","s","t","=","\"">>

\* " />
sFieldEnd ==
    <<"\""," ","/",">">>

\* </ProjectedFields>
sProjectedFieldsClose ==
    <<"<","/","P","r","o","j","e","c","t","e","d","F","i","e","l","d","s",">">>

\* </View>
sViewClose ==
    <<"<","/","V","i","e","w",">">>

\* Paged=TRUE&p_ID=
sPagingInfo ==
    <<"P","a","g","e","d","=","T","R","U","E","&","p","_","I","D","=">>

\* Include(
sInclude ==
    <<"I","n","c","l","u","d","e","(">>

\* )
sParenClose ==
    <<")">>

\* lookup
sLookup ==
    <<"l","o","o","k","u","p">>

\* in
sIn ==
    <<"i","n">>

\* undefined
sUndefined ==
    <<"u","n","d","e","f","i","n","e","d">>

\* Infinity
sInfinity ==
    <<"I","n","f","i","n","i","t","y">>

\* spHelper Error: Invalid query details. Minimum query details must include list title, columns and page position.
sErrInvalidQuery ==
    <<"s","p","H","e","l","p","e","r"," ","E","r","r","o","r",":"," ","I","n",
      "v","a","l","i","d"," ","q","u","e","r","y"," ","d","e","t","a","i","l",
      "s","."," ","M","i","n","i","m","u","m"," ","q","u","e","r","y"," ","d",
      "e","t","a","i","l","s"," ","m","u","s","t"," ","i","n","c","l","u","d",
      "e"," ","l","i","s","t"," ","t","i","t","l","e",","," ","c","o","l","u",
      "m","n","s"," ","a","n","d"," ","p","a","g","e"," ","p","o","s","i","t",
      "i","o","n",".">>

\* spHelper Error: Unable to read list data. Validate query details ... 
sErrUnableToRead ==
    <<"s","p","H","e","l","p","e","r"," ","E","r","r","o","r",":"," ","U","n",
      "a","b","l","e"," ","t","o"," ","r","e","a","d"," ","l","i","s","t"," ",
      "d","a","t","a","."," ","V","a","l","i","d","a","t","e"," ","q","u","e",
      "r","y"," ","d","e","t","a","i","l","s"," ",".",".","."," ">>

\* spHelper Error: The column '
sErrTheColumn ==
    <<"s","p","H","e","l","p","e","r"," ","E","r","r","o","r",":"," ","T","h",
      "e"," ","c","o","l","u","m","n"," ","'">>

\* ' requested from '
sErrRequestedFrom ==
    <<"'"," ","r","e","q","u","e","s","t","e","d"," ","f","r","o","m"," ","'">>

\* ' does not exist! Error: 
sErrDoesNotExist ==
    <<"'"," ","d","o","e","s"," ","n","o","t"," ","e","x","i","s","t","!"," ",
      "E","r","r","o","r",":"," ">>

\* TypeError
sTypeError ==
    <<"T","y","p","e","E","r","r","o","r">>


-----------------------------------------------------------------------------
(* Strings *)

UpperCase == <<"A","B","C","D","E","F","G","H","I","J","K","L","M",
               "N","O","P","Q","R","S","T","U","V","W","X","Y","Z">>
LowerCase == <<"a","b","c","d","e","f","g","h","i","j","k","l","m",
               "n","o","p","q","r","s","t","u","v","w","x","y","z">>
DecimalDigit == <<"0","1","2","3","4","5","6","7","8","9">>

Range(f) == {f[i] : i \in DOMAIN f}

\* String.prototype.toLowerCase
LowerChar(c) ==
    IF c \in Range(UpperCase)
    THEN LowerCase[CHOOSE k \in DOMAIN UpperCase : UpperCase[k] = c]
    ELSE c
ToLowerCase(s) == [i \in 1..Len(s) |-> LowerChar(s[i])]

\* Number.prototype.toString for the integers
RECURSIVE NatToString(_)
NatToString(n) ==
    IF n < 10 THEN <<DecimalDigit[n + 1]>>
    ELSE NatToString(n \div 10) \o <<DecimalDigit[(n % 10) + 1]>>
NumToString(n) == IF n < 0 THEN <<"-">> \o NatToString(-n) ELSE NatToString(n)

\* the concatenation of a sequence of strings, by halves
RECURSIVE Concat(_)
Concat(ss) ==
    IF ss = <<>> THEN <<>>
    ELSE IF Len(ss) = 1 THEN ss[1]
    ELSE LET h == Len(ss) \div 2 IN
         Concat(SubSeq(ss, 1, h)) \o Concat(SubSeq(ss, h + 1, Len(ss)))

\* Array.prototype.join
ArrayJoin(ss, sep) ==
    Concat([i \in 1..Len(ss) |-> IF i = 1 THEN ss[i] ELSE sep \o ss[i]])

\* ToString of a value that is not an array
ScalarToString(x) ==
    CASE x.t = "String"    -> x.str
      [] x.t = "Number"    -> NumToString(x.num)
      [] x.t = "Null"      -> <<"n","u","l","l">>
      [] OTHER             -> sUndefined

\* Array.prototype.toString: join(","), null and undefined elements empty
ArrayToString(a) ==
    ArrayJoin([i \in 1..Len(a) |->
            IF a[i].t \in {"Undefined", "Null"} THEN <<>> ELSE ScalarToString(a[i])],
         <<",">>)

\* ToString, as applied by template literals and by +
JsToString(x) == IF x.t = "Array" THEN ArrayToString(x.arr) ELSE ScalarToString(x)

-----------------------------------------------------------------------------
(* isNaN: ToNumber of the value is NaN (ECMAScript StringToNumber) *)

WhiteSpace == {" ", "\t", "\n", "\r"}
DigitSet   == Range(DecimalDigit)
HexSet     == DigitSet \cup {"a","b","c","d","e","f","A","B","C","D","E","F"}

AllIn(s, set) == \A i \in 1..Len(s) : s[i] \in set

Trim(s) ==
    LET keep == {i \in 1..Len(s) : s[i] \notin WhiteSpace} IN
    IF keep = {} THEN <<>>
    ELSE SubSeq(s, CHOOSE i \in keep : \A j \in keep : i <= j,
                   CHOOSE i \in keep : \A j \in keep : i >= j)

StripSign(s) == IF s # <<>> /\ s[1] \in {"+", "-"} THEN Tail(s) ELSE s

\* DecimalDigits . DecimalDigits(opt)  |  . DecimalDigits  |  DecimalDigits
IsMantissa(s) ==
    /\ AllIn(s, DigitSet \cup {"."})
    /\ Cardinality({i \in 1..Len(s) : s[i] = "."}) <= 1
    /\ \E i \in 1..Len(s) : s[i] \in DigitSet

\* StrUnsignedDecimalLiteral
IsUnsignedDecimal(s) ==
    \/ s = sInfinity
    \/ LET es == {i \in 1..Len(s) : s[i] \in {"e", "E"}} IN
       IF es = {} THEN IsMantissa(s)
       ELSE LET e   == CHOOSE i \in es : \A j \in es : i <= j
                exp == StripSign(SubSeq(s, e + 1, Len(s)))
            IN  /\ IsMantissa(SubSeq(s, 1, e - 1))
                /\ exp # <<>>
                /\ AllIn(exp, DigitSet)

\* NonDecimalIntegerLiteral: 0x, 0o, 0b
IsNonDecimal(s) ==
    /\ Len(s) >= 3
    /\ s[1] = "0"
    /\ \/ s[2] \in {"x", "X"} /\ AllIn(SubSeq(s, 3, Len(s)), HexSet)
       \/ s[2] \in {"o", "O"} /\ AllIn(SubSeq(s, 3, Len(s)), {"0","1","2","3","4","5","6","7"})
       \/ s[2] \in {"b", "B"} /\ AllIn(SubSeq(s, 3, Len(s)), {"0","1"})

\* StringToNumber gives a number: blank strings give 0
StringIsNumber(s) ==
    LET t == Trim(s) IN
    \/ t = <<>>
    \/ IsNonDecimal(t)
    \/ IsUnsignedDecimal(StripSign(t))

IsNaN(x) ==
    CASE x.t = "Number"    -> FALSE
      [] x.t = "Null"      -> FALSE
      [] x.t = "String"    -> ~StringIsNumber(x.str)
      [] x.t = "Array"     -> ~StringIsNumber(ArrayToString(x.arr))
      [] OTHER             -> TRUE

-----------------------------------------------------------------------------
(* loadListData: the CAML query *)

BatchCap == 60

\* a variant that lists every column name once
ViewFields_Distinct(listColumns) ==
    Concat([i \in 1..Len(listColumns.arr) |->
              IF \E j \in 1..(i - 1) : listColumns.arr[j] = listColumns.arr[i]
              THEN <<>>
              ELSE sFieldRefName \o JsToString(listColumns.arr[i]) \o sFieldRefEnd])

\* for (let column in queryDetails.listColumns): one FieldRef per index
ViewFields(listColumns) ==
    Concat([i \in 1..Len(listColumns.arr) |->
              sFieldRefName \o JsToString(listColumns.arr[i]) \o sFieldRefEnd])

\* if (typeof(queryDetails.where.value) === 'undefined') queryDetails.where.value = ''
DefaultWhereValue(qd) ==
    IF /\ IsUndefined(qd.query)
       /\ ~IsUndefined(qd.where)
       /\ IsUndefined(qd.where.value)
    THEN [qd EXCEPT !.where.value = Str(<<>>)]
    ELSE qd

\* one child of where.values
WhereChild(value) ==
    sLt \o JsToString(value.operation) \o sGt
    \o (IF ToLowerCase(value.type.str) = sLookup /\ ~IsNaN(value.value)
        THEN sFieldRefName \o JsToString(value.column) \o sLookupIdValueType
             \o JsToString(value.type) \o sQuoteGt \o JsToString(value.value)
             \o sValueClose
        ELSE sFieldRefName \o JsToString(value.column) \o sPlainValueType
             \o JsToString(value.type) \o sQuoteGt \o JsToString(value.value)
             \o sValueClose)
    \o sLtSlash \o JsToString(value.operation) \o sGt

\* where.values.forEach: the children between the opening and closing operation
WhereValues(where) ==
    sLt \o JsToString(where.operation) \o sGt
    \o Concat([i \in 1..Len(where.values.arr) |-> WhereChild(where.values.arr[i])])
    \o sLtSlash \o JsToString(where.operation) \o sGt

\* where.value.forEach: one Value element per value
ValueTags(where) ==
    Concat([i \in 1..Len(where.value.arr) |->
              sValueType \o JsToString(where.type) \o sQuoteGt
              \o JsToString(where.value.arr[i]) \o sValueClose])

MultiWhereValue(where) == where.value.t = "Array"

\* a variant that batches from 60 values on
CamlWhereInFix_AtCap(where) ==
    /\ ToLowerCase(where.operation.str) = sIn
    /\ where.value.t = "Array"
    /\ Len(where.value.arr) >= BatchCap

\* the IN operation with more than 60 values
CamlWhereInFix(where) ==
    /\ ToLowerCase(where.operation.str) = sIn
    /\ MultiWhereValue(where)
    /\ Len(where.value.arr) > BatchCap

\* Math.ceil(queryDetails.where.value.length / 60)
Batches(where) == (Len(where.value.arr) + BatchCap - 1) \div BatchCap

\* for (let i = 0; i < batches; i++): the In clause of batch i
BatchedIn(where, i) ==
    sInFieldRefName \o JsToString(where.column) \o sFieldRefEndValues
    \o ValueTags(where)
    \o sValuesInClose

\* the leaf with an array value
MultiValueLeaf(where) ==
    (IF ToLowerCase(where.type.str) = sLookup
        /\ ~IsNaN(IF where.value.arr = <<>> THEN Undefined ELSE where.value.arr[1])
     THEN sSpFieldRefName \o JsToString(where.column) \o sLookupIdEnd
     ELSE sSpFieldRefName \o JsToString(where.column) \o sFieldRefEnd)
    \o sValuesOpen \o ValueTags(where) \o sValuesClose

\* the leaf with a single value
SingleValueLeaf(where) ==
    (IF /\ ~IsUndefined(where.type)
        /\ ToLowerCase(where.type.str) = sLookup
        /\ ~IsNaN(where.value)
     THEN sSpFieldRefName \o JsToString(where.column) \o sLookupIdEnd
     ELSE sSpFieldRefName \o JsToString(where.column) \o sFieldRefEnd)
    \o (IF ~IsUndefined(where.type) /\ ~IsUndefined(where.value)
        THEN sValueType \o JsToString(where.type) \o sQuoteGt
             \o JsToString(where.value) \o sValueClose
        ELSE <<>>)

WhereLeaf(where) ==
    IF CamlWhereInFix(where)
    THEN sOrOpen
         \o Concat([i \in 1..Batches(where) |-> BatchedIn(where, i - 1)])
         \o sOrClose
    ELSE sLt \o JsToString(where.operation) \o sGt
         \o (IF MultiWhereValue(where) THEN MultiValueLeaf(where)
                                       ELSE SingleValueLeaf(where))
         \o sLtSlash \o JsToString(where.operation) \o sGt

\* the Query section; where.value already defaulted
Where(where) ==
    sQueryWhereOpen
    \o (IF ~IsUndefined(where.values) THEN WhereValues(where) ELSE WhereLeaf(where))
    \o sWhereQueryClose

\* the accesses of the where section that raise a TypeError
WhereThrows(where) ==
    IF ~IsUndefined(where.values)
    THEN \/ where.values.t # "Array"
         \/ \E i \in 1..Len(where.values.arr) : where.values.arr[i].type.t # "String"
    ELSE \/ where.value.t = "Null"
         \/ where.operation.t # "String"
         \/ /\ ~CamlWhereInFix(where)
            /\ IF MultiWhereValue(where) THEN where.type.t # "String"
               ELSE where.type.t \notin {"String", "Undefined"}

\* the Joins and ProjectedFields sections
Joins(join) ==
    sJoinType \o JsToString(join.direction) \o sListAlias \o JsToString(join.list)
    \o sJoinEqFieldRef \o JsToString(join.joinColumn) \o sRefTypeIdList
    \o JsToString(join.list) \o sJoinClose
    \o sProjectedFieldsOpen
    \o (IF join.getColumns.t = "Array"
        THEN Concat([i \in 1..Len(join.getColumns.arr) |->
                sFieldShowField \o JsToString(join.getColumns.arr[i]) \o sTypeLookupName
                \o JsToString(join.getColumns.arr[i]) \o sList \o JsToString(join.list)
                \o sFieldEnd])
        ELSE <<>>)
    \o sProjectedFieldsClose

\* a variant that appends the join section before the where section
CustomQuery_JoinFirst(qd) ==
    sViewOpen
    \o sViewFieldsOpen \o ViewFields(qd.listColumns) \o sViewFieldsClose
    \o (IF ~IsUndefined(qd.join) THEN Joins(qd.join) ELSE <<>>)
    \o (IF ~IsUndefined(qd.where) THEN Where(qd.where) ELSE <<>>)
    \o sViewClose

\* customQuery, for a descriptor without query; where.value already defaulted
CustomQuery(qd) ==
    sViewOpen
    \o sViewFieldsOpen \o ViewFields(qd.listColumns) \o sViewFieldsClose
    \o (IF ~IsUndefined(qd.where) THEN Where(qd.where) ELSE <<>>)
    \o (IF ~IsUndefined(qd.join) THEN Joins(qd.join) ELSE <<>>)
    \o sViewClose

\* a variant in which where overrides the raw query
ViewXml_WhereFirst(qd) ==
    IF ~IsUndefined(qd.query) /\ IsUndefined(qd.where) THEN qd.query.str
                                                       ELSE CustomQuery(qd)

\* camlQuery.set_viewXml
ViewXml(qd) == IF ~IsUndefined(qd.query) THEN qd.query.str ELSE CustomQuery(qd)

\* a variant that does not ask for a page position
InvalidQueryDetails_AnyPosition(qd) ==
    \/ IsUndefined(qd.listName) /\ IsUndefined(qd.listGuid)
    \/ IsUndefined(qd.listColumns)

\* the first check of loadListData
InvalidQueryDetails(qd) ==
    \/ IsUndefined(qd.listName) /\ IsUndefined(qd.listGuid)
    \/ IsUndefined(qd.listColumns)
    \/ IsUndefined(qd.pagePosition)

NoRequest == [list |-> Undefined]

\* The synchronous part of loadListData: what it throws, what it leaves in the
\* descriptor, and the request it hands to executeQueryAsync.
LoadListData(qd) ==
    IF InvalidQueryDetails(qd)
    THEN [threw |-> TRUE, error |-> sErrInvalidQuery, qd |-> qd, request |-> NoRequest]
    ELSE LET qd1 == DefaultWhereValue(qd) IN
         IF IsUndefined(qd1.query) /\ ~IsUndefined(qd1.where) /\ WhereThrows(qd1.where)
         THEN [threw |-> TRUE, error |-> sErrUnableToRead \o sTypeError,
               qd |-> qd1, request |-> NoRequest]
         ELSE [threw |-> FALSE, error |-> <<>>, qd |-> qd1,
               request |->
                 [list       |-> IF ~IsUndefined(qd1.listName) THEN qd1.listName
                                                               ELSE qd1.listGuid,
                  viewXml    |-> ViewXml(qd1),
                  pagingInfo |-> sPagingInfo \o JsToString(qd1.pagePosition),
                  include    |-> sInclude \o JsToString(qd1.listColumns) \o sParenClose]]

-----------------------------------------------------------------------------
(* The remote store: what executeQueryAsync may answer *)

cTitle == <<"T","i","t","l","e">>
cPhone == <<"P","h","o","n","e">>
cNope  == <<"N","o","p","e">>

\* the fields the returned items can be read for
ItemFieldSets == {{cTitle, cPhone, cNope}, {cTitle, cPhone}}

\* the error of get_item for a field the item does not hold
sItemError == <<"n","o","t"," ","l","o","a","d","e","d">>

\* args.get_message() of a failed request
StoreMessages == {<<"L","i","s","t"," ","g","o","n","e">>, <<"4","0","3">>}

PageSizes == {0, 2, 3217, PageCap}

\* currentListItem.get_item(columnName) of item i of the answer to request n
GetItem(n, i, columnName) == <<n, i, columnName>>

-----------------------------------------------------------------------------
(* loadListData.resolve: the returned items as rows *)

ColumnNames(qd) == [i \in 1..Len(qd.listColumns.arr) |-> JsToString(qd.listColumns.arr[i])]

\* the columns whose get_item throws, by position in listColumns
MissingColumns(qd, fields) ==
    {i \in 1..Len(qd.listColumns.arr) : ColumnNames(qd)[i] \notin fields}

\* the first item's first unreadable column ends the callback with a throw
ResolveThrows(qd, size, fields) == size > 0 /\ MissingColumns(qd, fields) # {}

ColumnError(qd, fields) ==
    LET m   == MissingColumns(qd, fields)
        col == ColumnNames(qd)[CHOOSE i \in m : \A j \in m : i <= j]
    IN  sErrTheColumn \o col \o sErrRequestedFrom
        \o (IF ~IsUndefined(qd.listName) THEN JsToString(qd.listName)
                                         ELSE JsToString(qd.listGuid))
        \o sErrDoesNotExist \o sItemError

\* itemRow[columnName] = currentListItem.get_item(columnName)
ItemRow(qd, n, i) ==
    [col \in Range(ColumnNames(qd)) |-> GetItem(n, i, col)]

ReturnedItems(qd, n, size) == [i \in 1..size |-> ItemRow(qd, n, i)]

-----------------------------------------------------------------------------
(* getListData *)

\* a variant that adds 5000 only
NextPagePosition_Uniform(pagePosition, listDataLength) == pagePosition + PageCap

\* the page position of the next request, after a page of 5000
NextPagePosition(pagePosition, listDataLength) ==
    IF listDataLength = PageCap
    THEN (pagePosition + 1) + PageCap
    ELSE pagePosition + PageCap

\* a variant that asks again after every page that is not empty
MoreData_NonEmpty(results) == Len(results) > 0

\* results.length == 5000: request more data
MoreData(results) == Len(results) = PageCap

\* a variant that puts the new page in front
Accumulate_Prepend(acc, results) == results \o acc

\* listData = listData.concat(results)
Accumulate(acc, results) == acc \o results

-----------------------------------------------------------------------------
(* Operations *)

\* a variant that asks for two pages at once
IssueLoad_Prefetch(c, o, qd, answered) ==
    LET out == LoadListData(qd) IN
    /\ queryDetails' = [queryDetails EXCEPT ![o] = out.qd]
    /\ IF out.threw
       THEN /\ thrown' = [thrown EXCEPT ![c] = Append(@, out.error)]
            /\ pc' = [pc EXCEPT ![c] = "threw"]
            /\ pending' = [pending EXCEPT ![c] = @ \ answered]
            /\ sent' = sent
       ELSE /\ thrown' = thrown
            /\ pc' = [pc EXCEPT ![c] = "waiting"]
            /\ pending' = [pending EXCEPT
                             ![c] = (@ \ answered)
                                    \cup {[n |-> Len(sent[c]) + 1, req |-> out.request],
                                          [n |-> Len(sent[c]) + 2, req |-> out.request]}]
            /\ sent' = [sent EXCEPT ![c] = Append(Append(@, out.request), out.request)]

\* The effect of one call of loadListData made by call c on object o, whose
\* descriptor is qd at the time of the call; answered holds the request whose
\* continuation makes the call, if any.
IssueLoad(c, o, qd, answered) ==
    LET out == LoadListData(qd) IN
    /\ queryDetails' = [queryDetails EXCEPT ![o] = out.qd]
    /\ IF out.threw
       THEN /\ thrown' = [thrown EXCEPT ![c] = Append(@, out.error)]
            /\ pc' = [pc EXCEPT ![c] = "threw"]
            /\ pending' = [pending EXCEPT ![c] = @ \ answered]
            /\ sent' = sent
       ELSE /\ thrown' = thrown
            /\ pc' = [pc EXCEPT ![c] = "waiting"]
            /\ pending' = [pending EXCEPT
                             ![c] = (@ \ answered)
                                    \cup {[n |-> Len(sent[c]) + 1, req |-> out.request]}]
            /\ sent' = [sent EXCEPT ![c] = Append(@, out.request)]

\* getListData(queryDetails, onSuccessUser, onFailureUser)
GetListData(c, o) ==
    /\ pc[c] = "idle"
    /\ LET qd0 == queryDetails[o]
           qd1 == IF IsUndefined(qd0.pagePosition)
                  THEN [qd0 EXCEPT !.pagePosition = Num(0)]
                  ELSE qd0
       IN  /\ given' = [given EXCEPT ![c] = qd0.pagePosition]
           /\ IssueLoad(c, o, qd1, {})
    /\ kind' = [kind EXCEPT ![c] = "getListData"]
    /\ qdOf' = [qdOf EXCEPT ![c] = o]
    /\ listData' = [listData EXCEPT ![c] = <<>>]
    /\ UNCHANGED <<received, answers, userSuccess, userFailure>>
    /\ UNCHANGED <<writeVars, searchVars, ribbonVars>>

\* loadListData(queryDetails, onSuccess, onFailure) called by the user
LoadListDataCall(c, o) ==
    /\ pc[c] = "idle"
    /\ given' = [given EXCEPT ![c] = queryDetails[o].pagePosition]
    /\ IssueLoad(c, o, queryDetails[o], {})
    /\ kind' = [kind EXCEPT ![c] = "loadListData"]
    /\ qdOf' = [qdOf EXCEPT ![c] = o]
    /\ UNCHANGED <<listData, received, answers, userSuccess, userFailure>>
    /\ UNCHANGED <<writeVars, searchVars, ribbonVars>>

\* getListData's resolve(results)
GetListDataResolve(c, r, results) ==
    LET o   == qdOf[c]
        acc == Accumulate(listData[c], results)
    IN  /\ listData' = [listData EXCEPT ![c] = acc]
        /\ received' = [received EXCEPT ![c] = Append(@, Len(results))]
        /\ IF MoreData(results)
           THEN /\ IssueLoad(c, o,
                     [queryDetails[o] EXCEPT
                        !.pagePosition =
                           Num(NextPagePosition(queryDetails[o].pagePosition.num, Len(acc)))],
                     {r})
                /\ UNCHANGED userSuccess
           ELSE /\ userSuccess' = [userSuccess EXCEPT ![c] = Append(@, acc)]
                /\ pc' = [pc EXCEPT ![c] = "done"]
                /\ pending' = [pending EXCEPT ![c] = @ \ {r}]
                /\ UNCHANGED <<queryDetails, sent, thrown>>

\* The success continuation of request r of call c runs: loadListData's resolve,
\* and through onSuccess the caller's callback or getListData's resolve.
ExecuteQuerySucceeded(c, r, size, fields) ==
    /\ r \in pending[c]
    /\ size = PageCap => r.n < MaxRequests
    /\ LET qd == queryDetails[qdOf[c]] IN
       IF ResolveThrows(qd, size, fields)
       THEN /\ thrown' = [thrown EXCEPT ![c] = Append(@, ColumnError(qd, fields))]
            /\ pc' = [pc EXCEPT ![c] = "threw"]
            /\ pending' = [pending EXCEPT ![c] = @ \ {r}]
            /\ UNCHANGED <<queryDetails, listData, sent, received, userSuccess>>
       ELSE IF kind[c] = "getListData"
       THEN GetListDataResolve(c, r, ReturnedItems(qd, r.n, size))
       ELSE /\ userSuccess' = [userSuccess EXCEPT
                                 ![c] = Append(@, ReturnedItems(qd, r.n, size))]
            /\ received' = [received EXCEPT ![c] = Append(@, size)]
            /\ pc' = [pc EXCEPT ![c] = "done"]
            /\ pending' = [pending EXCEPT ![c] = @ \ {r}]
            /\ UNCHANGED <<queryDetails, listData, sent, thrown>>
    /\ answers' = [answers EXCEPT
                      ![c] = Append(@, [n |-> r.n, ok |-> TRUE, size |-> size,
                                         fields |-> fields, message |-> <<>>])]
    /\ UNCHANGED <<kind, qdOf, given, userFailure>>
    /\ UNCHANGED <<writeVars, searchVars, ribbonVars>>

\* a variant that wraps the message of the store
ExecuteQueryFailed_Wrapped(c, r, message) ==
    /\ r \in pending[c]
    /\ userFailure' = [userFailure EXCEPT ![c] = Append(@, sErrUnableToRead \o message)]
    /\ pc' = [pc EXCEPT ![c] = "done"]
    /\ pending' = [pending EXCEPT ![c] = @ \ {r}]
    /\ answers' = [answers EXCEPT
                      ![c] = Append(@, [n |-> r.n, ok |-> FALSE, size |-> 0,
                                         fields |-> {}, message |-> message])]
    /\ UNCHANGED <<queryDetails, kind, qdOf, listData, sent, received, given,
                   userSuccess, thrown>>
    /\ UNCHANGED <<writeVars, searchVars, ribbonVars>>

\* a variant that also hands over the rows collected so far
ExecuteQueryFailed_Partial(c, r, message) ==
    /\ r \in pending[c]
    /\ userFailure' = [userFailure EXCEPT ![c] = Append(@, message)]
    /\ userSuccess' = [userSuccess EXCEPT ![c] = Append(@, listData[c])]
    /\ pc' = [pc EXCEPT ![c] = "done"]
    /\ pending' = [pending EXCEPT ![c] = @ \ {r}]
    /\ answers' = [answers EXCEPT
                      ![c] = Append(@, [n |-> r.n, ok |-> FALSE, size |-> 0,
                                         fields |-> {}, message |-> message])]
    /\ UNCHANGED <<queryDetails, kind, qdOf, listData, sent, received, given, thrown>>
    /\ UNCHANGED <<writeVars, searchVars, ribbonVars>>

\* The failure continuation of request r of call c runs: loadListData's reject,
\* and through onFailure the caller's callback (getListData's reject passes it on).
ExecuteQueryFailed(c, r, message) ==
    /\ r \in pending[c]
    /\ userFailure' = [userFailure EXCEPT ![c] = Append(@, message)]
    /\ pc' = [pc EXCEPT ![c] = "done"]
    /\ pending' = [pending EXCEPT ![c] = @ \ {r}]
    /\ answers' = [answers EXCEPT
                      ![c] = Append(@, [n |-> r.n, ok |-> FALSE, size |-> 0,
                                         fields |-> {}, message |-> message])]
    /\ UNCHANGED <<queryDetails, kind, qdOf, listData, sent, received, given,
                   userSuccess, thrown>>
    /\ UNCHANGED <<writeVars, searchVars, ribbonVars>>

-----------------------------------------------------------------------------
(* Descriptors the caller may pass *)

QueryDetails(listName, listGuid, listColumns, pagePosition, query, where, join) ==
    [listName |-> listName, listGuid |-> listGuid, listColumns |-> listColumns,
     pagePosition |-> pagePosition, query |-> query, where |-> where, join |-> join]

WhereClause(column, operation, value, type, values) ==
    [t |-> "Object", column |-> column, operation |-> operation, value |-> value,
     type |-> type, values |-> values]

sCustomers == <<"C","u","s","t","o","m","e","r","s">>
sGuid      == <<"4","f","-","a","1">>
sRawQuery  == <<"<","V","i","e","w","/",">">>
sEq        == <<"E","q">>
sText      == <<"T","e","x","t">>

ListIdentifiers ==
    {<<Str(sCustomers), Undefined>>, <<Undefined, Str(sGuid)>>, <<Undefined, Undefined>>}

PagingInputs ==
    {QueryDetails(id[1], id[2], cols, pos, query, where, Undefined) :
        id \in ListIdentifiers,
        cols \in {Arr(<<Str(cTitle)>>), Arr(<<Str(cTitle), Str(cNope)>>), Undefined},
        pos \in {Undefined, Num(0), Num(7)},
        query \in {Undefined, Str(sRawQuery)},
        where \in {Undefined,
                   WhereClause(Str(cTitle), Str(sEq), Undefined, Str(sText), Undefined)}}

\* the bound on the number of In batches the inputs reach
MaxBatches == 3

sInOp    == <<"I","n">>
sAnd     == <<"A","n","d">>
sOr      == <<"O","r">>
sLookupT == <<"L","o","o","k","u","p">>
sLOOKUP  == <<"L","O","O","K","U","P">>
sDept    == <<"D","e","p","t">>
sLeft    == <<"L","E","F","T">>
sCity    == <<"C","i","t","y">>
sZip     == <<"Z","i","p">>

\* the lengths of the value arrays: around every multiple of 60
ValueCounts ==
    {n \in 0..(BatchCap * MaxBatches) : n % BatchCap \in {0, 1, 10, BatchCap - 1}}

\* value arrays with n distinct values: numerals, numbers, names
ValueArrays(n) ==
    {Arr([i \in 1..n |-> Str(NumToString(i))]),
     Arr([i \in 1..n |-> Num(i)]),
     Arr([i \in 1..n |-> Str(<<"v">> \o NumToString(i))])}

\* single comparison values
SingleValues ==
    {Str(<<"4","2">>), Num(42), Str(<<"E","n","g","i","n","e","e","r","i","n","g">>),
     Str(<<>>), Str(<<" ">>), Str(<<"4","e","2">>), Str(<<"0","x","1","F">>),
     Str(<<"4"," ","2">>), Str(<<"-","7",".","5">>), Undefined}

WhereTypes == {Undefined, Str(sText), Str(sLookupT), Str(sLookup), Str(sLOOKUP)}

\* a leaf with the In operation and an array of values
InLeaves ==
    {WhereClause(Str(sDept), op, value, type, Undefined) :
        op \in {Str(sInOp), Str(sIn)},
        value \in UNION {ValueArrays(n) : n \in ValueCounts},
        type \in {Undefined, Str(sText), Str(sLookupT)}}

\* a leaf with one value, or none
SingleLeaves ==
    {WhereClause(Str(sDept), Str(sEq), value, type, Undefined) :
        value \in SingleValues, type \in WhereTypes}

\* the children of a compound where
WhereChildren ==
    {WhereClause(Str(sDept), Str(sEq), value, type, Undefined) :
        value \in {Str(<<"4","2">>), Str(<<"E","n","g">>), Str(<<>>), Undefined},
        type \in {Undefined, Str(sText), Str(sLookupT), Str(sLOOKUP)}}

Compounds ==
    {WhereClause(Undefined, op, Undefined, Undefined, Arr(<<a, b>>)) :
        op \in {Str(sAnd), Str(sOr)}, a \in WhereChildren, b \in WhereChildren}

\* a compound where one of whose children is a compound
NestedCompounds ==
    {WhereClause(Undefined, Str(sAnd), Undefined, Undefined,
                 Arr(<<WhereClause(Str(sDept), Str(sEq), Str(<<"4","2">>), Str(sText),
                                   Undefined),
                       WhereClause(Undefined, Str(sOr), Undefined, type, Arr(<<a, b>>))>>)) :
        type \in {Undefined, Str(sText)},
        a \in {w \in WhereChildren : w.type = Str(sText)},
        b \in {w \in WhereChildren : w.type = Str(sLookupT)}}

JoinDescriptor(direction, list, joinColumn, getColumns) ==
    [t |-> "Object", direction |-> direction, list |-> list,
     joinColumn |-> joinColumn, getColumns |-> getColumns]

ColumnLists ==
    {Arr(<<Str(cTitle)>>), Arr(<<Str(cTitle), Str(cPhone)>>),
     Arr(<<Str(cTitle), Str(cTitle)>>), Arr(<<Str(cPhone), Str(cTitle), Str(cPhone)>>),
     Arr(<<>>)}

JoinInputs ==
    {Undefined,
     JoinDescriptor(Str(sLeft), Str(sCity), Str(sDept), Arr(<<Str(sZip), Str(cTitle)>>))}

\* the descriptors whose query is inspected
CompileInputs ==
    {QueryDetails(Str(sCustomers), Undefined, cols, Num(0), query, where, join) :
        cols \in ColumnLists,
        query \in {Undefined, Str(sRawQuery)},
        where \in {Undefined} \cup {l \in SingleLeaves : l.value = Str(<<"4","2">>)},
        join \in JoinInputs}
    \cup
    {QueryDetails(Str(sCustomers), Undefined, Arr(<<Str(cTitle)>>), Num(0), Undefined,
                  where, Undefined) :
        where \in InLeaves \cup SingleLeaves \cup Compounds \cup NestedCompounds}
    \cup
    {QueryDetails(id[1], id[2], cols, pos, Undefined, Undefined, Undefined) :
        id \in ListIdentifiers,
        cols \in {Arr(<<Str(cTitle)>>), Undefined},
        pos \in {Num(0), Undefined}}

-----------------------------------------------------------------------------
(* addListItem and updateListItem: the field values written to the item *)

\* spHelper Error: Invalid update details. To update an item, the list name, item ID, and column update data is required.
sErrInvalidUpdate ==
    <<"s","p","H","e","l","p","e","r"," ","E","r","r","o","r",":"," ","I","n",
      "v","a","l","i","d"," ","u","p","d","a","t","e"," ","d","e","t","a","i",
      "l","s","."," ","T","o"," ","u","p","d","a","t","e"," ","a","n"," ","i",
      "t","e","m",","," ","t","h","e"," ","l","i","s","t"," ","n","a","m","e",
      ","," ","i","t","e","m"," ","I","D",","," ","a","n","d"," ","c","o","l",
      "u","m","n"," ","u","p","d","a","t","e"," ","d","a","t","a"," ","i","s",
      " ","r","e","q","u","i","r","e","d",".">>

\* spHelper Error: Invalid create item details. To create an item, listName and columnData must be defined.
sErrInvalidCreate ==
    <<"s","p","H","e","l","p","e","r"," ","E","r","r","o","r",":"," ","I","n",
      "v","a","l","i","d"," ","c","r","e","a","t","e"," ","i","t","e","m"," ",
      "d","e","t","a","i","l","s","."," ","T","o"," ","c","r","e","a","t","e",
      " ","a","n"," ","i","t","e","m",","," ","l","i","s","t","N","a","m","e",
      " ","a","n","d"," ","c","o","l","u","m","n","D","a","t","a"," ","m","u",
      "s","t"," ","b","e"," ","d","e","f","i","n","e","d",".">>

\* spHelper Error: Invalid Lookup field details. Unable to update item ... 
sErrLookupUpdate ==
    <<"s","p","H","e","l","p","e","r"," ","E","r","r","o","r",":"," ","I","n",
      "v","a","l","i","d"," ","L","o","o","k","u","p"," ","f","i","e","l","d",
      " ","d","e","t","a","i","l","s","."," ","U","n","a","b","l","e"," ","t",
      "o"," ","u","p","d","a","t","e"," ","i","t","e","m"," ",".",".","."," ">>

\* spHelper Error: Invalid Lookup field details. Unable to add item ... 
sErrLookupAdd ==
    <<"s","p","H","e","l","p","e","r"," ","E","r","r","o","r",":"," ","I","n",
      "v","a","l","i","d"," ","L","o","o","k","u","p"," ","f","i","e","l","d",
      " ","d","e","t","a","i","l","s","."," ","U","n","a","b","l","e"," ","t",
      "o"," ","a","d","d"," ","i","t","e","m"," ",".",".","."," ">>

\* spHelper Error: Unable to update item. Validate update details ... 
sErrUnableToUpdate ==
    <<"s","p","H","e","l","p","e","r"," ","E","r","r","o","r",":"," ","U","n",
      "a","b","l","e"," ","t","o"," ","u","p","d","a","t","e"," ","i","t","e",
      "m","."," ","V","a","l","i","d","a","t","e"," ","u","p","d","a","t","e",
      " ","d","e","t","a","i","l","s"," ",".",".","."," ">>

\* SPHelper Error: Unable to add new item. Validate create details ... 
sErrUnableToAdd ==
    <<"S","P","H","e","l","p","e","r"," ","E","r","r","o","r",":"," ","U","n",
      "a","b","l","e"," ","t","o"," ","a","d","d"," ","n","e","w"," ","i","t",
      "e","m","."," ","V","a","l","i","d","a","t","e"," ","c","r","e","a","t",
      "e"," ","d","e","t","a","i","l","s"," ",".",".","."," ">>

\* url
sUrl ==
    <<"u","r","l">>

\* user
sUser ==
    <<"u","s","e","r">>

\* new SP.FieldUrlValue() with set_url and set_description
FieldUrlValue(url, description) ==
    [t |-> "FieldUrlValue", url |-> url, description |-> description]

\* new SP.FieldLookupValue() with set_lookupId
FieldLookupValue(lookupId) == [t |-> "FieldLookupValue", lookupId |-> lookupId]

\* SP.FieldUserValue.fromUser
FieldUserValue(user) == [t |-> "FieldUserValue", user |-> user]

\* a column maps to a value for set_item, or an exception leaves the mapping
SetTo(value) == [threw |-> FALSE, error |-> <<>>, value |-> value]
Throws(error) == [threw |-> TRUE, error |-> error, value |-> Undefined]

\* x.constructor and x.forEach are a TypeError on undefined and null
HasProperties(x) == x.t \notin {"Undefined", "Null"}

\* x !== '' is false for the empty string only
IsEmptyString(x) == x.t = "String" /\ x.str = <<>>

\* one reference per element, in order (forEach + push)
LookupFields(ids) == Arr([i \in 1..Len(ids) |-> FieldLookupValue(ids[i])])

\* a variant that puts each reference in front of the list
UserList_Reversed(users) ==
    Arr([i \in 1..Len(users) |-> FieldUserValue(users[Len(users) + 1 - i])])

\* userList: one identity reference per element, in order (push)
UserList(users) == Arr([i \in 1..Len(users) |-> FieldUserValue(users[i])])

\* the Url branch
UrlField(d) == SetTo(FieldUrlValue(d.URL, d.Description))

\* the Lookup branch of updateListItem
UpdateLookupField(d) ==
    IF ~IsEmptyString(d.LookupID)
    THEN SetTo(FieldLookupValue(d.LookupID))
    ELSE SetTo(Null)

\* the Lookup branch of updateListItem in build/spHelper.js
UpdateLookupFieldBuild(d) ==
    IF ~IsEmptyString(d.LookupID)
    THEN IF ~HasProperties(d.LookupID)
         THEN Throws(sErrLookupUpdate \o sTypeError)
         ELSE IF d.LookupID.t = "Array"
         THEN SetTo(LookupFields(d.LookupID.arr))
         ELSE SetTo(FieldLookupValue(d.LookupID))
    ELSE SetTo(Null)

\* the Lookup branch of addListItem
AddLookupField(d) ==
    IF ~HasProperties(d.LookupID)
    THEN Throws(sErrLookupAdd \o sTypeError)
    ELSE IF d.LookupID.t \in {"Number", "String"}
    THEN SetTo(FieldLookupValue(d.LookupID))
    ELSE IF d.LookupID.t = "Array"
    THEN SetTo(LookupFields(d.LookupID.arr))
    ELSE Throws(sErrLookupAdd \o sTypeError)

\* the User branch
UserField(d) ==
    IF ~HasProperties(d.Value)
    THEN Throws(sTypeError)
    ELSE IF d.Value.t = "String"
    THEN SetTo(UserList(<<d.Value>>))
    ELSE IF d.Value.t = "Array"
    THEN SetTo(UserList(d.Value.arr))
    ELSE Throws(sTypeError)

\* a variant whose last branch writes a list holding the Value
WriteField_Wrapped(op, d) ==
    IF d.Type.t # "String"
    THEN Throws(sTypeError)
    ELSE LET type == ToLowerCase(d.Type.str) IN
         IF type = sUrl THEN UrlField(d)
         ELSE IF type = sLookup
         THEN CASE op = "addListItem" -> AddLookupField(d)
                [] op = "updateListItem" -> UpdateLookupField(d)
                [] OTHER -> UpdateLookupFieldBuild(d)
         ELSE IF type = sUser THEN UserField(d)
         ELSE SetTo(Arr(<<d.Value>>))

\* the body of the loop over columnData, for the column descriptor d
WriteField(op, d) ==
    IF d.Type.t # "String"
    THEN Throws(sTypeError)
    ELSE LET type == ToLowerCase(d.Type.str) IN
         IF type = sUrl THEN UrlField(d)
         ELSE IF type = sLookup
         THEN CASE op = "addListItem" -> AddLookupField(d)
                [] op = "updateListItem" -> UpdateLookupField(d)
                [] OTHER -> UpdateLookupFieldBuild(d)
         ELSE IF type = sUser THEN UserField(d)
         ELSE SetTo(d.Value)

\* for (let key in columnData): the set_item calls made until a column throws
WriteItem(op, columnData) ==
    LET field == [i \in 1..Len(columnData) |-> WriteField(op, columnData[i].column)]
        T == {i \in 1..Len(columnData) : field[i].threw}
        k == IF T = {} THEN 0 ELSE CHOOSE i \in T : \A j \in T : i <= j
        n == IF k = 0 THEN Len(columnData) ELSE k - 1
    IN  [threw |-> k # 0,
         error |-> IF k # 0 THEN field[k].error ELSE <<>>,
         calls |-> [i \in 1..n |-> [key |-> columnData[i].key,
                                    value |-> field[i].value]]]

\* One call of a write operation: validation, the loop over the columns,
\* spItem.update() and executeQueryAsync; the outer catch rethrows.
WriteCall(op, invalid, sInvalid, sUnable) ==
    /\ writePc = "idle"
    /\ writeOp' = op
    /\ IF invalid
       THEN /\ writeThrown' = Append(writeThrown, sInvalid)
            /\ writePc' = "threw"
            /\ UNCHANGED <<spItem, itemUpdated>>
       ELSE LET out == WriteItem(op, itemDetails.columnData.entries) IN
            /\ spItem' = out.calls
            /\ IF out.threw
               THEN /\ writeThrown' = Append(writeThrown, sUnable \o out.error)
                    /\ writePc' = "threw"
                    /\ UNCHANGED itemUpdated
               ELSE /\ itemUpdated' = TRUE
                    /\ writePc' = "sent"
                    /\ UNCHANGED writeThrown
    /\ UNCHANGED <<itemDetails, writeSuccess, writeFailure>>
    /\ UNCHANGED <<pagingVars, searchVars, ribbonVars>>

AddListItem ==
    WriteCall("addListItem",
              IsUndefined(itemDetails.listName) \/ IsUndefined(itemDetails.columnData),
              sErrInvalidCreate, sErrUnableToAdd)

UpdateListItem ==
    WriteCall("updateListItem",
              \/ IsUndefined(itemDetails.listName)
              \/ IsUndefined(itemDetails.itemID)
              \/ IsUndefined(itemDetails.columnData),
              sErrInvalidUpdate, sErrUnableToUpdate)

\* updateListItem as build/spHelper.js has it
UpdateListItemBuild ==
    WriteCall("updateListItemBuild",
              \/ IsUndefined(itemDetails.listName)
              \/ IsUndefined(itemDetails.itemID)
              \/ IsUndefined(itemDetails.columnData),
              sErrInvalidUpdate, sErrUnableToUpdate)

\* what executeQueryAsync passes to its callbacks
Sender == [t |-> "ClientRequest"]
SucceededArgs == [t |-> "ClientRequestSucceededEventArgs"]
FailedArgs(message) == [t |-> "ClientRequestFailedEventArgs", message |-> message]

\* ids the store may give a new item
NewItemIds == {12, 13}

\* The success continuation of the write request: onLocalSuccess of
\* addListItem passes the new id, updateListItem registers onSuccessUser itself.
WriteSucceeded(id) ==
    /\ writePc = "sent"
    /\ writePc' = "done"
    /\ writeSuccess' = Append(writeSuccess,
                              IF writeOp = "addListItem"
                              THEN <<Num(id)>>
                              ELSE <<Sender, SucceededArgs>>)
    /\ UNCHANGED <<itemDetails, writeOp, spItem, itemUpdated, writeThrown, writeFailure>>
    /\ UNCHANGED <<pagingVars, searchVars, ribbonVars>>

\* The failure continuation of the write request: onFailureUser is registered
\* with executeQueryAsync directly.
WriteFailed(message) ==
    /\ writePc = "sent"
    /\ writePc' = "done"
    /\ writeFailure' = Append(writeFailure, <<Sender, FailedArgs(message)>>)
    /\ UNCHANGED <<itemDetails, writeOp, spItem, itemUpdated, writeThrown, writeSuccess>>
    /\ UNCHANGED <<pagingVars, searchVars, ribbonVars>>

-----------------------------------------------------------------------------
(* Item descriptors the caller may pass *)

ColumnDescriptor(Type, Value, URL, Description, LookupID) ==
    [t |-> "Object", Type |-> Type, Value |-> Value, URL |-> URL,
     Description |-> Description, LookupID |-> LookupID]

ItemDetails(listName, itemID, columnData) ==
    [listName |-> listName, itemID |-> itemID, columnData |-> columnData]

\* columnData: the keys in insertion order, each with its column descriptor
ColumnData(entries) == [t |-> "Object", entries |-> entries]

sUrlT     == <<"U","r","l">>
sUserT    == <<"U","s","e","r">>
sNumberT  == <<"N","u","m","b","e","r">>
sSite     == <<"S","i","t","e">>
sHttp     == <<"h","t","t","p",":","/","/","a",".","b">>
sHome     == <<"H","o","m","e">>
sAda      == <<"a","d","a">>
sBob      == <<"b","o","b">>

LookupIDs ==
    {Num(10), Str(<<"1","0">>), Str(<<>>), Arr(<<Num(3), Num(7), Num(9)>>),
     Arr(<<Num(4)>>), Arr(<<>>), Undefined}

LookupColumns ==
    {ColumnDescriptor(Str(type), Undefined, Undefined, Undefined, id) :
        type \in {sLookupT, sLookup, sLOOKUP}, id \in LookupIDs}

UrlColumns ==
    {ColumnDescriptor(Str(sUrlT), Undefined, url, description, Undefined) :
        url \in {Str(sHttp), Undefined}, description \in {Str(sHome), Undefined}}

UserColumns ==
    {ColumnDescriptor(Str(sUserT), value, Undefined, Undefined, Undefined) :
        value \in {Str(sAda), Arr(<<Str(sAda), Str(sBob)>>), Arr(<<>>), Undefined}}

PlainColumns ==
    {ColumnDescriptor(type, value, Undefined, Undefined, Undefined) :
        type \in {Str(sText), Str(sNumberT), Undefined},
        value \in {Str(sHome), Num(42), Arr(<<Str(sAda), Str(sBob)>>), Undefined}}

Columns == LookupColumns \union UrlColumns \union UserColumns \union PlainColumns

\* one column under the key Dept, or two under the keys Dept and Site
ColumnDatas ==
    {ColumnData(<<[key |-> sDept, column |-> d]>>) : d \in Columns}
    \union
    {ColumnData(<<[key |-> sDept, column |-> d], [key |-> sSite, column |-> e]>>) :
        d \in {ColumnDescriptor(Str(sLookupT), Undefined, Undefined, Undefined, id) :
                  id \in LookupIDs},
        e \in LookupColumns \union UrlColumns}
    \union
    {ColumnData(<<[key |-> sDept, column |-> d], [key |-> sSite, column |-> e]>>) :
        d \in {c \in PlainColumns : c.Type = Str(sText)},
        e \in PlainColumns \union UserColumns}
    \union {ColumnData(<<>>)}

WriteInputs ==
    {ItemDetails(Str(sCustomers), Num(7), cd) : cd \in ColumnDatas}
    \union
    {ItemDetails(listName, itemID, cd) :
        listName \in {Str(sCustomers), Undefined},
        itemID \in {Num(7), Undefined},
        cd \in {Undefined, ColumnData(<<[key |-> sDept,
                   column |-> ColumnDescriptor(Str(sText), Str(sHome), Undefined,
                                               Undefined, Undefined)]>>)}}

-----------------------------------------------------------------------------
(* searchUsers: one profile lookup per search result *)

MaxResults == 3

\* the account name of the i-th search result
Account(i) == <<"u">> \o NumToString(i)

SearchTerms == {sAda, sBob}

\* JSON.parse(searchResult.get_value()): null, or an array of entities
SearchResults ==
    {Null} \cup
    {Arr([i \in 1..n |-> [t |-> "Object", Description |-> Str(Account(i))]]) :
        n \in 0..MaxResults}

\* personProperties.get_userProfileProperties()
UserProfile(userID) == [t |-> "Object", AccountName |-> userID]

\* a variant that is satisfied by the first resolved promise
AllResolved_Any(done, n) == done # {}

\* Promise.all(profilePromises): every one of the n promises is resolved
AllResolved(done, n) == done = 1..n

\* searchUsers up to executeQueryAsync
SearchUsers(searchTerm) ==
    /\ searchPc = "idle"
    /\ searchPc' = "searching"
    /\ queryString' = searchTerm
    /\ UNCHANGED <<found, lookups, started, fired, userList, promised,
                   searchSuccess, searchFailure>>
    /\ UNCHANGED <<pagingVars, writeVars, ribbonVars>>

\* resolve of searchUsers: getUserProfile is called for every result in the
\* loop; the callback of Promise.all runs when the handler has returned, at
\* once for an empty list of promises
SearchResolved(value) ==
    /\ searchPc = "searching"
    /\ searchPc' = "resolved"
    /\ found' = value
    /\ IF value.t = "Array"
       THEN /\ started' = [i \in 1..Len(value.arr) |-> value.arr[i].Description]
            /\ lookups' = 1..Len(value.arr)
            /\ searchSuccess' = IF AllResolved({}, Len(value.arr))
                                THEN Append(searchSuccess, Arr(<<>>))
                                ELSE searchSuccess
       ELSE /\ searchSuccess' = Append(searchSuccess, Null)
            /\ UNCHANGED <<started, lookups>>
    /\ UNCHANGED <<queryString, fired, userList, promised, searchFailure>>
    /\ UNCHANGED <<pagingVars, writeVars, ribbonVars>>

\* reject of searchUsers
SearchRejected(message) ==
    /\ searchPc = "searching"
    /\ searchPc' = "rejected"
    /\ searchFailure' = Append(searchFailure, Str(message))
    /\ UNCHANGED <<queryString, found, lookups, started, fired, userList, promised,
                   searchSuccess>>
    /\ UNCHANGED <<pagingVars, writeVars, ribbonVars>>

\* onRequestSuccess of getUserProfile for the i-th result, then buildUserList:
\* the profile, or null when the properties cannot be read, and resolve();
\* the callback of Promise.all runs when the last promise has been resolved
ProfileSucceeded(i, profile) ==
    /\ searchPc = "resolved"
    /\ i \in lookups
    /\ lookups' = lookups \ {i}
    /\ fired' = Append(fired, [i |-> i, ok |-> TRUE, profile |-> profile])
    /\ userList' = IF profile.t # "Null" THEN Append(userList, profile) ELSE userList
    /\ promised' = promised \cup {i}
    /\ searchSuccess' = IF AllResolved(promised', Len(started))
                        THEN Append(searchSuccess, Arr(userList'))
                        ELSE searchSuccess
    /\ UNCHANGED <<searchPc, queryString, found, started, searchFailure>>
    /\ UNCHANGED <<pagingVars, writeVars, ribbonVars>>

\* onRequestFail of getUserProfile for the i-th result, then displayError:
\* the promise of the lookup is left pending
ProfileFailed(i, message) ==
    /\ searchPc = "resolved"
    /\ i \in lookups
    /\ lookups' = lookups \ {i}
    /\ fired' = Append(fired, [i |-> i, ok |-> FALSE, profile |-> Undefined])
    /\ searchFailure' = Append(searchFailure, Str(message))
    /\ UNCHANGED <<searchPc, queryString, found, started, userList, promised,
                   searchSuccess>>
    /\ UNCHANGED <<pagingVars, writeVars, ribbonVars>>

-----------------------------------------------------------------------------
(* spRibbon().removeEdit, in build/spHelper.js *)

\* Unable to remove the edit tab (Ribbon took to long to load). Try refreshing this page.
sTookTooLong ==
    <<"U","n","a","b","l","e"," ","t","o"," ","r","e","m","o","v","e"," ","t",
      "h","e"," ","e","d","i","t"," ","t","a","b"," ","(","R","i","b","b","o",
      "n"," ","t","o","o","k"," ","t","o"," ","l","o","n","g"," ","t","o"," ",
      "l","o","a","d",")","."," ","T","r","y"," ","r","e","f","r","e","s","h",
      "i","n","g"," ","t","h","i","s"," ","p","a","g","e",".">>

\* ReferenceError
sReferenceError ==
    <<"R","e","f","e","r","e","n","c","e","E","r","r","o","r">>

\* Ribbon.ListForm.Edit
sRibbonEdit ==
    <<"R","i","b","b","o","n",".","L","i","s","t","F","o","r","m",".","E","d",
      "i","t">>

\* Ribbon.Read
sRibbonRead ==
    <<"R","i","b","b","o","n",".","R","e","a","d">>


\* var attempts = 3
Attempts == 3

MaxRibbonCalls == 3
RibbonCalls == 1..MaxRibbonCalls

\* the ribbon of the page: SP.Ribbon is not there yet ("absent"), get_ribbon()
\* returns null ("loading"), or the ribbon is there with or without its Edit tab
NoRibbon(state) == [state |-> state, editTab |-> FALSE, selected |-> <<>>]

ReadyRibbons ==
    {[state |-> "ready", editTab |-> TRUE, selected |-> sRibbonEdit],
     [state |-> "ready", editTab |-> TRUE, selected |-> sRibbonRead],
     [state |-> "ready", editTab |-> FALSE, selected |-> sRibbonRead]}

\* startRemoveEdit: how the attempt settles the promise. In the retry branch
\* the argument startRemove of setTimeout names no variable, so evaluating it
\* raises a ReferenceError, which the catch passes to reject; neither the
\* timer nor attempts-- is reached.
StartRemoveEdit(rb, left, removed) ==
    IF rb.state = "absent"
    THEN [settle |-> "reject", reason |-> Str(sTypeError)]
    ELSE IF rb.state = "ready"
    THEN [settle |-> "resolve", reason |-> Undefined]
    ELSE IF ~removed /\ left > 0
    THEN [settle |-> "reject", reason |-> Str(sReferenceError)]
    ELSE [settle |-> "reject", reason |-> Str(sTookTooLong)]

\* the callback given to ExecuteOrDelayUntilScriptLoaded runs for the calls R
ScriptCallback(R) ==
    /\ ribbon' = IF R # {} /\ ribbon.state = "ready"
                 THEN [ribbon EXCEPT !.editTab = FALSE, !.selected = sRibbonRead]
                 ELSE ribbon
    /\ ribbonPc' = [r \in RibbonCalls |-> IF r \in R THEN "settled" ELSE ribbonPc[r]]
    /\ attempts' = [r \in RibbonCalls |-> IF r \in R THEN Attempts ELSE attempts[r]]
    /\ editRemoved' = [r \in RibbonCalls |->
                          IF r \in R THEN ribbon.state = "ready" ELSE editRemoved[r]]
    /\ seen' = [r \in RibbonCalls |->
                   IF r \in R THEN Append(seen[r], ribbon.state) ELSE seen[r]]
    /\ ribbonResolved' =
          [r \in RibbonCalls |->
              IF r \in R /\ StartRemoveEdit(ribbon, Attempts, FALSE).settle = "resolve"
              THEN ribbonResolved[r] + 1
              ELSE ribbonResolved[r]]
    /\ ribbonRejected' =
          [r \in RibbonCalls |->
              IF r \in R /\ StartRemoveEdit(ribbon, Attempts, FALSE).settle = "reject"
              THEN Append(ribbonRejected[r], StartRemoveEdit(ribbon, Attempts, FALSE).reason)
              ELSE ribbonRejected[r]]

\* removeEdit: the callback runs at once when sp.ui.dialog.js is loaded
RemoveEdit(r) ==
    /\ ribbonPc[r] = "idle"
    /\ IF scriptLoaded
       THEN ScriptCallback({r})
       ELSE /\ ribbonPc' = [ribbonPc EXCEPT ![r] = "delayed"]
            /\ UNCHANGED <<ribbon, attempts, editRemoved, seen, ribbonResolved,
                           ribbonRejected>>
    /\ UNCHANGED scriptLoaded
    /\ UNCHANGED <<pagingVars, writeVars, searchVars>>

\* sp.ui.dialog.js is loaded: the delayed callbacks run
ScriptLoaded ==
    /\ ~scriptLoaded
    /\ scriptLoaded' = TRUE
    /\ ScriptCallback({r \in RibbonCalls : ribbonPc[r] = "delayed"})
    /\ UNCHANGED <<pagingVars, writeVars, searchVars>>

\* the page goes on loading its ribbon
RibbonLoads(rb) ==
    /\ \/ ribbon.state = "absent" /\ rb = NoRibbon("loading")
       \/ ribbon.state = "loading" /\ rb \in ReadyRibbons
    /\ ribbon' = rb
    /\ UNCHANGED <<scriptLoaded, ribbonPc, attempts, editRemoved, seen, ribbonResolved,
                   ribbonRejected>>
    /\ UNCHANGED <<pagingVars, writeVars, searchVars>>

-----------------------------------------------------------------------------
(* Specifications *)

vars == <<pagingVars, writeVars, searchVars, ribbonVars>>

InitCalls ==
    /\ pc = [c \in Calls |-> "idle"]
    /\ kind = [c \in Calls |-> "none"]
    /\ qdOf = [c \in Calls |-> 1]
    /\ listData = [c \in Calls |-> <<>>]
    /\ pending = [c \in Calls |-> {}]
    /\ sent = [c \in Calls |-> <<>>]
    /\ received = [c \in Calls |-> <<>>]
    /\ answers = [c \in Calls |-> <<>>]
    /\ given = [c \in Calls |-> Undefined]
    /\ userSuccess = [c \in Calls |-> <<>>]
    /\ userFailure = [c \in Calls |-> <<>>]
    /\ thrown = [c \in Calls |-> <<>>]

\* no write operation has been called
InitWrites ==
    /\ writeOp = "none"
    /\ writePc = "idle"
    /\ spItem = <<>>
    /\ itemUpdated = FALSE
    /\ writeThrown = <<>>
    /\ writeSuccess = <<>>
    /\ writeFailure = <<>>

InitSearch ==
    /\ searchPc = "idle"
    /\ queryString = <<>>
    /\ found = Undefined
    /\ lookups = {}
    /\ started = <<>>
    /\ fired = <<>>
    /\ userList = <<>>
    /\ promised = {}
    /\ searchSuccess = <<>>
    /\ searchFailure = <<>>

InitRibbon ==
    /\ ribbonPc = [r \in RibbonCalls |-> "idle"]
    /\ attempts = [r \in RibbonCalls |-> Attempts]
    /\ editRemoved = [r \in RibbonCalls |-> FALSE]
    /\ seen = [r \in RibbonCalls |-> <<>>]
    /\ ribbonResolved = [r \in RibbonCalls |-> 0]
    /\ ribbonRejected = [r \in RibbonCalls |-> <<>>]

\* a page that has loaded neither the script nor the ribbon
InitPage ==
    /\ scriptLoaded = FALSE
    /\ ribbon = NoRibbon("absent")

\* one retrieval on one descriptor
Init ==
    /\ \E qd \in PagingInputs : queryDetails = [o \in Objects |-> qd]
    /\ InitCalls
    /\ itemDetails = ItemDetails(Undefined, Undefined, Undefined)
    /\ InitWrites
    /\ InitSearch /\ InitRibbon /\ InitPage

Next ==
    \/ GetListData(1, 1)
    \/ LoadListDataCall(1, 1)
    \/ \E r \in pending[1], size \in PageSizes, fields \in ItemFieldSets :
          ExecuteQuerySucceeded(1, r, size, fields)
    \/ \E r \in pending[1], message \in StoreMessages :
          ExecuteQueryFailed(1, r, message)

Spec == Init /\ [][Next]_vars

\* executeQueryAsync runs one of the two callbacks of a request of call c
Continuation(c) ==
    \E r \in pending[c] :
        \/ \E size \in PageSizes, fields \in ItemFieldSets :
              ExecuteQuerySucceeded(c, r, size, fields)
        \/ \E message \in StoreMessages : ExecuteQueryFailed(c, r, message)

\* every request that was issued is answered
SpecLive == Init /\ [][Next]_vars /\ WF_vars(Continuation(1))

\* two getListData calls, each on either of two descriptor objects that start
\* out with the same contents; the store answers in any order
InitTwo ==
    /\ \E pos \in {Undefined, Num(0), Num(7)} :
          queryDetails = [o \in Objects |->
                            QueryDetails(Str(sCustomers), Undefined, Arr(<<Str(cTitle)>>),
                                         pos, Undefined, Undefined, Undefined)]
    /\ InitCalls
    /\ itemDetails = ItemDetails(Undefined, Undefined, Undefined)
    /\ InitWrites
    /\ InitSearch /\ InitRibbon /\ InitPage

NextTwo ==
    \/ \E c \in Calls, o \in Objects : GetListData(c, o)
    \/ \E c \in Calls : \E r \in pending[c], size \in {3217, PageCap} :
          ExecuteQuerySucceeded(c, r, size, {cTitle})
    \/ \E c \in Calls : \E r \in pending[c], message \in StoreMessages :
          ExecuteQueryFailed(c, r, message)

SpecTwo == InitTwo /\ [][NextTwo]_vars

\* one loadListData call, to read the query it sends
InitCompile ==
    /\ \E qd \in CompileInputs : queryDetails = [o \in Objects |-> qd]
    /\ InitCalls
    /\ itemDetails = ItemDetails(Undefined, Undefined, Undefined)
    /\ InitWrites
    /\ InitSearch /\ InitRibbon /\ InitPage

NextCompile == LoadListDataCall(1, 1)

SpecCompile == InitCompile /\ [][NextCompile]_vars

\* one write operation on one item descriptor
InitWrite ==
    /\ itemDetails \in WriteInputs
    /\ InitWrites
    /\ queryDetails = [o \in Objects |->
                         QueryDetails(Undefined, Undefined, Undefined, Undefined,
                                      Undefined, Undefined, Undefined)]
    /\ InitCalls
    /\ InitSearch /\ InitRibbon /\ InitPage

NextWrite ==
    \/ AddListItem
    \/ UpdateListItem
    \/ UpdateListItemBuild
    \/ \E id \in NewItemIds : WriteSucceeded(id)
    \/ \E message \in StoreMessages : WriteFailed(message)

SpecWrite == InitWrite /\ [][NextWrite]_vars

IdleElsewhere ==
    /\ queryDetails = [o \in Objects |->
                         QueryDetails(Undefined, Undefined, Undefined, Undefined,
                                      Undefined, Undefined, Undefined)]
    /\ InitCalls
    /\ itemDetails = ItemDetails(Undefined, Undefined, Undefined)
    /\ InitWrites

\* one searchUsers call; the lookups are answered in any order
InitSearchUsers ==
    /\ InitSearch
    /\ InitRibbon /\ InitPage
    /\ IdleElsewhere

NextSearch ==
    \/ \E searchTerm \in SearchTerms : SearchUsers(searchTerm)
    \/ \E value \in SearchResults : SearchResolved(value)
    \/ \E message \in StoreMessages : SearchRejected(message)
    \/ \E i \in lookups : \E profile \in {UserProfile(started[i]), Null} :
          ProfileSucceeded(i, profile)
    \/ \E i \in lookups, message \in StoreMessages : ProfileFailed(i, message)

SpecSearch == InitSearchUsers /\ [][NextSearch]_vars

\* removeEdit calls on a page in any state of loading
InitRemoveEdit ==
    /\ scriptLoaded \in BOOLEAN
    /\ ribbon \in {NoRibbon("absent"), NoRibbon("loading")} \cup ReadyRibbons
    /\ InitRibbon
    /\ InitSearch
    /\ IdleElsewhere

NextRibbon ==
    \/ \E r \in RibbonCalls : RemoveEdit(r)
    \/ ScriptLoaded
    \/ \E rb \in {NoRibbon("loading")} \cup ReadyRibbons : RibbonLoads(rb)

SpecRibbon == InitRemoveEdit /\ [][NextRibbon]_vars

-----------------------------------------------------------------------------
(* Properties of getListData *)

\* the cursor the caller gave, 0 when none was given
InitialCursor(c) == IF IsUndefined(given[c]) THEN 0 ELSE given[c].num

\* C1: in a getListData call, request i (counted from 0) carries the cursor c0
\* for i = 0 and c0 + 5000*i + 1 for every later request, c0 being the cursor
\* the caller gave (0 when none): 0, 5001, 10001, ...
C1_CursorProgression ==
    \A c \in Calls :
        kind[c] = "getListData" =>
            \A i \in 1..Len(sent[c]) :
                sent[c][i].pagingInfo =
                    sPagingInfo \o NumToString(InitialCursor(c)
                        + (IF i = 1 THEN 0 ELSE PageCap * (i - 1) + 1))

\* pages of 5000, 5000 and 3217 rows were asked for at 0, 5001 and 10001
C1_Witness ==
    /\ kind[1] = "getListData"
    /\ received[1] = <<PageCap, PageCap, 3217>>
    /\ [i \in 1..Len(sent[1]) |-> sent[1][i].pagingInfo] =
          <<sPagingInfo \o <<"0">>,
            sPagingInfo \o <<"5","0","0","1">>,
            sPagingInfo \o <<"1","0","0","0","1">>>>

\* C2: getListData issues a further request after a page if and only if the
\* page holds exactly 5000 rows; after a page of any other size it has stopped
\* and called onSuccessUser.  So pages of 5000 (k times) and then fewer take
\* k + 1 requests.
C2_ContinueIffFullPage ==
    \A c \in Calls :
        kind[c] = "getListData" =>
            \A i \in 1..Len(received[c]) :
                /\ (received[c][i] = PageCap) <=> (Len(sent[c]) > i)
                /\ (received[c][i] # PageCap) =>
                       /\ pc[c] = "done"
                       /\ Len(userSuccess[c]) = 1
                       /\ pending[c] = {}

\* three requests for pages of 5000, 5000 and 3217 rows, then the callback
C2_Witness ==
    /\ kind[1] = "getListData"
    /\ received[1] = <<PageCap, PageCap, 3217>>
    /\ Len(sent[1]) = 3
    /\ pc[1] = "done"
    /\ Len(userSuccess[1]) = 1

\* the pages handed to getListData's resolve so far, one after the other
PagesReceived(c) ==
    Concat([i \in 1..Len(received[c]) |->
              ReturnedItems(queryDetails[qdOf[c]], i, received[c][i])])

\* C3: what getListData hands to onSuccessUser is the concatenation of all the
\* pages received in that call, in request order, each page in its own order;
\* its length is the sum of the page sizes.
C3_DeliversConcatenation ==
    \A c \in Calls :
        kind[c] = "getListData" =>
            \A k \in 1..Len(userSuccess[c]) :
                userSuccess[c][k] = PagesReceived(c)

\* 13217 rows delivered for pages of 5000, 5000 and 3217 rows
C3_Witness ==
    /\ kind[1] = "getListData"
    /\ received[1] = <<PageCap, PageCap, 3217>>
    /\ Len(userSuccess[1]) = 1
    /\ Len(userSuccess[1][1]) = 13217
    /\ userSuccess[1][1][5001] # userSuccess[1][1][1]

-----------------------------------------------------------------------------
(* Reading a compiled query *)

sInOpen  == <<"<","I","n",">">>
sInClose == <<"<","/","I","n",">">>

StartsAt(q, i, lit) ==
    /\ i >= 1
    /\ i + Len(lit) - 1 <= Len(q)
    /\ \A k \in 1..Len(lit) : q[i + k - 1] = lit[k]

\* where lit occurs in q
Occurrences(q, lit) == {i \in 1..Len(q) : StartsAt(q, i, lit)}

\* the j-th smallest element of a set of numbers
Nth(S, j) == CHOOSE x \in S : Cardinality({y \in S : y < x}) = j - 1

\* what stands between the j-th open and the j-th close
Between(q, open, close, j) ==
    SubSeq(q, Nth(Occurrences(q, open), j) + Len(open),
              Nth(Occurrences(q, close), j) - 1)

\* the descriptor of call c, and the query of its first request
Descriptor(c) == queryDetails[qdOf[c]]
FirstQuery(c) == sent[c][1].viewXml

\* call c has sent a query that loadListData built from the descriptor
BuiltQuery(c) == sent[c] # <<>> /\ IsUndefined(Descriptor(c).query)

\* the where of call c is a leaf with an array of values and the operation op
IsInLeaf(c) ==
    /\ BuiltQuery(c)
    /\ ~IsUndefined(Descriptor(c).where)
    /\ IsUndefined(Descriptor(c).where.values)
    /\ Descriptor(c).where.value.t = "Array"
    /\ Descriptor(c).where.operation = Str(sInOp)

\* one Value element per value, in order
ValueElements(type, values) ==
    Concat([i \in 1..Len(values) |->
              sValueType \o JsToString(type) \o sQuoteGt
              \o JsToString(values[i]) \o sValueClose])

Min(a, b) == IF a < b THEN a ELSE b

\* C4: an In leaf with N > 60 values compiles to ceil(N/60) In clauses inside
\* one Or; clause j lists the values 60*j .. min(60*j+59, N-1), in order, so
\* no clause has more than 60 values and together they list every value once.
C4_InBatchesPartition ==
    \A c \in Calls :
        (IsInLeaf(c) /\ Len(Descriptor(c).where.value.arr) > BatchCap) =>
            LET q      == FirstQuery(c)
                where  == Descriptor(c).where
                values == where.value.arr
                N      == Len(values)
                k      == (N + BatchCap - 1) \div BatchCap
            IN  /\ Cardinality(Occurrences(q, sInOpen)) = k
                /\ Cardinality(Occurrences(q, sInClose)) = k
                /\ Cardinality(Occurrences(q, sOrOpen)) = 1
                /\ Cardinality(Occurrences(q, sOrClose)) = 1
                /\ \A i \in Occurrences(q, sInOpen) :
                        /\ \A o \in Occurrences(q, sOrOpen) : o < i
                        /\ \A o \in Occurrences(q, sOrClose) : i < o
                /\ Cardinality(Occurrences(q, sValuesOpen)) = k
                /\ Cardinality(Occurrences(q, sValuesClose)) = k
                /\ \A j \in 1..k :
                        Between(q, sValuesOpen, sValuesClose, j) =
                            ValueElements(where.type,
                                SubSeq(values, BatchCap * (j - 1) + 1,
                                       Min(BatchCap * j, N)))

\* C5: an In leaf with N <= 60 values (60 included) compiles to exactly one In
\* clause that lists all N values in order, with no Or around it.
C5_SingleInClause ==
    \A c \in Calls :
        ( /\ pc[c] # "idle"
          /\ kind[c] = "loadListData"
          /\ IsUndefined(Descriptor(c).query)
          /\ ~IsUndefined(Descriptor(c).where)
          /\ IsUndefined(Descriptor(c).where.values)
          /\ Descriptor(c).where.operation = Str(sInOp)
          /\ Descriptor(c).where.type.t = "String"
          /\ Descriptor(c).where.value.t = "Array"
          /\ Len(Descriptor(c).where.value.arr) <= BatchCap ) =>
            /\ Len(sent[c]) = 1
            /\ LET q     == FirstQuery(c)
                   where == Descriptor(c).where
               IN  /\ Cardinality(Occurrences(q, sInOpen)) = 1
                   /\ Cardinality(Occurrences(q, sInClose)) = 1
                   /\ Occurrences(q, sOrOpen) = {}
                   /\ Occurrences(q, sOrClose) = {}
                   /\ Cardinality(Occurrences(q, sValuesOpen)) = 1
                   /\ Cardinality(Occurrences(q, sValuesClose)) = 1
                   /\ Between(q, sValuesOpen, sValuesClose, 1) =
                          ValueElements(where.type, where.value.arr)

\* a query was sent for an In leaf with exactly 60 values
C5_Witness ==
    /\ IsInLeaf(1)
    /\ Descriptor(1).where.type = Str(sLookupT)
    /\ Len(Descriptor(1).where.value.arr) = BatchCap
    /\ Descriptor(1).where.value.arr[BatchCap] = Num(BatchCap)

\* the value denotes a number: a number, or a string with a numeric literal
IsNumeric(value) ==
    \/ value.t = "Number"
    \/ /\ value.t = "String"
       /\ Trim(value.str) # <<>>
       /\ StringIsNumber(value.str)

IsLookupType(type) == type.t = "String" /\ ToLowerCase(type.str) = sLookup

\* the predicate section of a built query
Predicate(q) == Between(q, sQueryWhereOpen, sWhereQueryClose, 1)

\* the k-th field reference of p, for the column col, carries LookupId='TRUE'
HasLookupId(p, k, col) ==
    StartsAt(p, Nth(Occurrences(p, sFieldRefName), k) + Len(sFieldRefName) + Len(col),
             sLookupIdEnd)

\* C6: the field reference of a leaf carries LookupId='TRUE' if and only if the
\* leaf's type is Lookup (in any letter case) and its value is numeric; this
\* for a top-level leaf with one value and for each child of a compound where.
C6_LookupIdIffNumeric ==
    \A c \in Calls :
        (BuiltQuery(c) /\ ~IsUndefined(Descriptor(c).where)) =>
            LET where == Descriptor(c).where
                p     == Predicate(FirstQuery(c))
            IN  IF ~IsUndefined(where.values)
                THEN \A k \in 1..Len(where.values.arr) :
                        LET child == where.values.arr[k] IN
                        HasLookupId(p, k, JsToString(child.column))
                            <=> (IsLookupType(child.type) /\ IsNumeric(child.value))
                ELSE where.value.t # "Array" =>
                        (HasLookupId(p, 1, JsToString(where.column))
                            <=> (IsLookupType(where.type) /\ IsNumeric(where.value)))

\* C7: for a descriptor without query, the ViewFields section holds one field
\* reference per entry of listColumns, in the given order, once per entry:
\* duplicates are kept, nothing is added, dropped or reordered.
C7_ViewFieldsAreListColumns ==
    \A c \in Calls :
        BuiltQuery(c) =>
            LET q    == FirstQuery(c)
                cols == Descriptor(c).listColumns.arr
                sec  == Between(q, sViewFieldsOpen, sViewFieldsClose, 1)
                refs == Occurrences(sec, sFieldRefName)
            IN  /\ Cardinality(Occurrences(q, sViewFieldsOpen)) = 1
                /\ Cardinality(Occurrences(q, sViewFieldsClose)) = 1
                /\ Cardinality(refs) = Len(cols)
                /\ \A j \in 1..Len(cols) :
                        StartsAt(sec, Nth(refs, j),
                                 sFieldRefName \o JsToString(cols[j]) \o sFieldRefEnd)
                /\ Len(sec) = Len(Concat([j \in 1..Len(cols) |->
                                sFieldRefName \o JsToString(cols[j]) \o sFieldRefEnd]))

\* a query was built for the columns Phone, Title, Phone
C7_Witness ==
    /\ BuiltQuery(1)
    /\ Descriptor(1).listColumns = Arr(<<Str(cPhone), Str(cTitle), Str(cPhone)>>)
    /\ Cardinality(Occurrences(FirstQuery(1), sFieldRefName \o cPhone \o sFieldRefEnd)) = 2

-----------------------------------------------------------------------------
(* Properties of the row projection *)

Contains(s, part) == Occurrences(s, part) # {}

\* the list identifier of the descriptor: listName, else listGuid
ListIdentifier(qd) ==
    IF ~IsUndefined(qd.listName) THEN JsToString(qd.listName)
                                 ELSE JsToString(qd.listGuid)

\* the answers of the store in which an item cannot be read for column i
UnreadableAnswers(c, i) ==
    {k \in 1..Len(answers[c]) :
        /\ answers[c][k].ok
        /\ answers[c][k].size > 0
        /\ ColumnNames(Descriptor(c))[i] \notin answers[c][k].fields}

\* C8: when a requested column cannot be read from a returned item, the
\* caller's failure callback is called with an error that names the list
\* identifier and the column, and no row reaches the success callback.
C8_UnreadableColumnFails ==
    \A c \in Calls :
        pc[c] # "idle" /\ sent[c] # <<>> =>
            \A i \in 1..Len(Descriptor(c).listColumns.arr) :
                UnreadableAnswers(c, i) # {} =>
                    /\ userSuccess[c] = <<>>
                    /\ \E k \in 1..Len(userFailure[c]) :
                          /\ Contains(userFailure[c][k], ListIdentifier(Descriptor(c)))
                          /\ \E j \in 1..Len(Descriptor(c).listColumns.arr) :
                                /\ UnreadableAnswers(c, j) # {}
                                /\ Contains(userFailure[c][k], ColumnNames(Descriptor(c))[j])

-----------------------------------------------------------------------------
(* Properties of the written field values *)

\* the columns of the descriptor, in order
ColumnEntries == itemDetails.columnData.entries

\* the write operation went through every column
WroteAll ==
    /\ writePc \in {"sent", "done"}
    /\ Len(spItem) = Len(ColumnEntries)

IsLookupColumn(d) == d.Type.t = "String" /\ ToLowerCase(d.Type.str) = sLookup

\* the value written is the list of one lookup reference per id, in order
IsReferenceList(value, ids) ==
    /\ value.t = "Array"
    /\ Len(value.arr) = Len(ids)
    /\ \A j \in 1..Len(ids) :
          /\ value.arr[j].t = "FieldLookupValue"
          /\ value.arr[j].lookupId.t = ids[j].t
          /\ value.arr[j].lookupId = ids[j]

\* the value written is the single lookup reference to id
IsReference(value, id) ==
    /\ value.t = "FieldLookupValue"
    /\ value.lookupId.t = id.t
    /\ value.lookupId = id

\* C9: a Lookup column whose LookupID is a sequence is written as one lookup
\* reference per element, in the given order, and a scalar LookupID as a
\* single reference, in addListItem and in updateListItem alike.
C9_LookupReferences ==
    WroteAll =>
        \A i \in 1..Len(ColumnEntries) :
            LET d == ColumnEntries[i].column IN
            IsLookupColumn(d) =>
                /\ d.LookupID.t = "Array" =>
                      IsReferenceList(spItem[i].value, d.LookupID.arr)
                /\ d.LookupID.t \in {"Number", "String"} /\ ~IsEmptyString(d.LookupID) =>
                      IsReference(spItem[i].value, d.LookupID)

\* C10: a Lookup column whose LookupID is the empty string clears the field
\* (sets it to null) and builds no lookup reference with an empty id, in
\* addListItem and in updateListItem alike.
C10_EmptyLookupClears ==
    WroteAll =>
        \A i \in 1..Len(ColumnEntries) :
            LET d == ColumnEntries[i].column IN
            IsLookupColumn(d) /\ IsEmptyString(d.LookupID) =>
                spItem[i].value.t = "Null"

IsUrlColumn(d) == d.Type.t = "String" /\ ToLowerCase(d.Type.str) = sUrl

\* both parts of the Url descriptor are given
HasUrlParts(d) == ~IsUndefined(d.URL) /\ ~IsUndefined(d.Description)

\* the value written is the url value with the given url and description
IsUrlValue(value, d) ==
    /\ value.t = "FieldUrlValue"
    /\ value.url.t = d.URL.t /\ value.url = d.URL
    /\ value.description.t = d.Description.t /\ value.description = d.Description

\* C11: a Url column with both URL and Description is written as a url value
\* with that url and that description; a Url column in which either is absent
\* makes the operation fail with an error and is never written with an
\* undefined part, in addListItem and in updateListItem alike.
C11_UrlWrittenOrRejected ==
    /\ \A i \in 1..Len(spItem) :
          LET d == ColumnEntries[i].column IN
          IsUrlColumn(d) => HasUrlParts(d) /\ IsUrlValue(spItem[i].value, d)
    /\ writePc \in {"sent", "done"} =>
          \A i \in 1..Len(ColumnEntries) :
              IsUrlColumn(ColumnEntries[i].column) => HasUrlParts(ColumnEntries[i].column)

-----------------------------------------------------------------------------
(* Properties of loadListData *)

\* C12: when the descriptor carries a raw query, the query sent to the store is
\* that string unchanged, whatever the where and join fields of the descriptor
\* hold; descriptors with the same query send the same query.
C12_RawQueryVerbatim ==
    \A c \in Calls :
        sent[c] # <<>> /\ ~IsUndefined(Descriptor(c).query) =>
            \A i \in 1..Len(sent[c]) : sent[c][i].viewXml = Descriptor(c).query.str

\* a raw query was sent for a descriptor that also has a where and a join
C12_Witness ==
    /\ sent[1] # <<>>
    /\ ~IsUndefined(Descriptor(1).query)
    /\ ~IsUndefined(Descriptor(1).where)
    /\ ~IsUndefined(Descriptor(1).join)
    /\ sent[1][1].viewXml = sRawQuery

\* call c was made with a list identifier, and a page position where one is
\* needed (getListData supplies 0)
HasListAndPosition(c) ==
    /\ ~IsUndefined(Descriptor(c).listName) \/ ~IsUndefined(Descriptor(c).listGuid)
    /\ kind[c] = "getListData" \/ ~IsUndefined(given[c])

\* C13: listColumns is optional when a full query is given: a call of
\* loadListData or getListData with a list identifier, a query and no
\* listColumns is not rejected and issues the remote request.
C13_ListColumnsOptionalWithQuery ==
    \A c \in Calls :
        /\ pc[c] # "idle"
        /\ HasListAndPosition(c)
        /\ ~IsUndefined(Descriptor(c).query)
        /\ IsUndefined(Descriptor(c).listColumns)
        => /\ thrown[c] = <<>>
           /\ sent[c] # <<>>

\* call c is a call of loadListData that raised before its request went out
RaisedSynchronously(c) ==
    /\ kind[c] = "loadListData"
    /\ thrown[c] # <<>>
    /\ answers[c] = <<>>

-----------------------------------------------------------------------------
(* Properties of getListData when a request fails, and of its requests *)

\* the answers of the store to call c that are failures
FailedAnswers(c) == {k \in 1..Len(answers[c]) : ~answers[c][k].ok}

\* C15: when the failure continuation of a page request fires, getListData
\* calls onFailureUser exactly once, with the message of the store unchanged,
\* and issues no further page request for that call.
C15_FailureForwardedOnce ==
    \A c \in Calls :
        kind[c] = "getListData" =>
            \A k \in FailedAnswers(c) :
                /\ userFailure[c] = <<answers[c][k].message>>
                /\ Len(sent[c]) = k
                /\ pending[c] = {}

\* the second page request failed and the failure callback got the message
C15_Witness ==
    /\ kind[1] = "getListData"
    /\ Len(answers[1]) = 2
    /\ answers[1][1].ok /\ ~answers[1][2].ok
    /\ userFailure[1] = <<answers[1][2].message>>
    /\ Len(sent[1]) = 2

\* C16: if a page request fails after pages have been accumulated, getListData
\* never calls onSuccessUser for that call: the rows accumulated are not
\* delivered.
C16_NoPartialResult ==
    \A c \in Calls :
        kind[c] = "getListData" /\ FailedAnswers(c) # {} => userSuccess[c] = <<>>

\* 10000 rows were accumulated when the third request failed
C16_Witness ==
    /\ kind[1] = "getListData"
    /\ received[1] = <<PageCap, PageCap>>
    /\ Len(listData[1]) = 2 * PageCap
    /\ FailedAnswers(1) = {3}
    /\ userSuccess[1] = <<>>

\* C17: within a getListData call at most one page request is outstanding, and
\* the request for page i+1 is issued only after the success continuation of
\* the request for page i has fired.
C17_OneRequestAtATime ==
    \A c \in Calls :
        kind[c] = "getListData" =>
            /\ Cardinality(pending[c]) <= 1
            /\ \A i \in 2..Len(sent[c]) :
                  /\ Len(answers[c]) >= i - 1
                  /\ answers[c][i - 1].ok
                  /\ answers[c][i - 1].n = i - 1

\* the third request is outstanding, the first two have been answered
C17_Witness ==
    /\ kind[1] = "getListData"
    /\ Len(sent[1]) = 3
    /\ Len(answers[1]) = 2
    /\ Cardinality(pending[1]) = 1

\* C18: if the continuation of every issued request fires and the store
\* answers with a page of fewer than 5000 rows, or with a failure, after
\* finitely many pages, a getListData call that has issued a request
\* eventually calls onSuccessUser or onFailureUser.
C18_EventuallyCalledBack ==
    \A c \in {1} :
        (kind[c] = "getListData" /\ sent[c] # <<>>)
            ~> (userSuccess[c] # <<>> \/ userFailure[c] # <<>>)

-----------------------------------------------------------------------------
(* Properties of getListData calls that share a descriptor *)

\* C19: two getListData calls in flight at the same time do not affect each
\* other, also when both were started with the same descriptor object: each
\* sends the cursors it would send alone, c0 and then c0 + 5000*i + 1 from the
\* page position c0 it started with, and delivers the pages it received.
C19_CallsIndependent ==
    \A c \in Calls :
        kind[c] = "getListData" =>
            /\ \A i \in 1..Len(sent[c]) :
                  sent[c][i].pagingInfo =
                      sPagingInfo \o NumToString(InitialCursor(c)
                          + (IF i = 1 THEN 0 ELSE PageCap * (i - 1) + 1))
            /\ \A k \in 1..Len(userSuccess[c]) :
                  userSuccess[c][k] = PagesReceived(c)

\* C20: the cursor of a getListData call does not outlive it: when a call that
\* needed more than one page has ended, the next getListData call with the
\* same descriptor object sends its first request with the cursor of the first
\* request of the earlier call.
C20_CursorEndsWithCall ==
    [][\A c, d \in Calls :
          /\ c # d
          /\ kind[c] = "getListData" /\ pc[c] = "done" /\ Len(sent[c]) > 1
          /\ pc[d] = "idle" /\ pc'[d] # "idle"
          /\ kind'[d] = "getListData" /\ qdOf'[d] = qdOf[c]
          /\ sent'[d] # <<>>
          => sent'[d][1].pagingInfo = sent[c][1].pagingInfo]_vars

-----------------------------------------------------------------------------
(* Properties of the compiled query *)

\* The descriptor as the caller built it: in a run with one call, on object 1,
\* object 2 still has the contents both objects started with.
AsGiven == queryDetails[2]

\* C21: compiling the query of a descriptor is pure: every field of the
\* descriptor is afterwards as the caller gave it (a where clause given without
\* a value still has none), and compiling the descriptor again yields the same
\* query string.
C21_CompileIsPure ==
    pc[1] # "idle" /\ qdOf[1] = 1 =>
        /\ queryDetails[1] = AsGiven
        /\ sent[1] # <<>> =>
              LoadListData(queryDetails[1]).request.viewXml = sent[1][1].viewXml

-----------------------------------------------------------------------------
(* Properties of the callbacks of getListData *)

\* C22: a getListData call whose remote requests have all completed has called
\* exactly one of onSuccessUser and onFailureUser, exactly once, also when a
\* returned item lacks a requested column; and at no time has it called both,
\* or one of them twice.
C22_ExactlyOneCallback ==
    \A c \in Calls :
        kind[c] = "getListData" =>
            /\ Len(userSuccess[c]) + Len(userFailure[c]) <= 1
            /\ sent[c] # <<>> /\ pending[c] = {} =>
                  Len(userSuccess[c]) + Len(userFailure[c]) = 1

\* s ends with the string lit
EndsWith(s, lit) == Len(s) >= Len(lit) /\ StartsAt(s, Len(s) - Len(lit) + 1, lit)

\* C23: for a where leaf given without a value, the compiled predicate is the
\* operator element holding a field reference and no Value element, whether or
\* not the leaf declares a type.
C23_NoValueElementWithoutValue ==
    (BuiltQuery(1) /\ qdOf[1] = 1 /\ ~IsUndefined(AsGiven.where)) =>
        LET where == AsGiven.where
            p     == Predicate(FirstQuery(1))
            op    == JsToString(where.operation)
        IN  (IsUndefined(where.values) /\ IsUndefined(where.value)) =>
                /\ StartsAt(p, 1, sLt \o op \o sGt)
                /\ Contains(p, sFieldRefName \o JsToString(where.column))
                /\ EndsWith(p, sLtSlash \o op \o sGt)
                /\ ~Contains(p, sValueType)

\* every leaf below the where node w declares a type
RECURSIVE LeavesTyped(_)
LeavesTyped(w) ==
    IF ~IsUndefined(w.values)
    THEN \A i \in 1..Len(w.values.arr) : LeavesTyped(w.values.arr[i])
    ELSE ~IsUndefined(w.type)

\* the operator element of a compound around the compiled forms of its
\* children in order, a compound child being compiled the same way
RECURSIVE Nested(_)
Nested(w) ==
    IF ~IsUndefined(w.values)
    THEN sLt \o JsToString(w.operation) \o sGt
         \o Concat([i \in 1..Len(w.values.arr) |-> Nested(w.values.arr[i])])
         \o sLtSlash \o JsToString(w.operation) \o sGt
    ELSE WhereChild(w)

\* C24: for a compound where, the compiled predicate is the opening operator
\* element, the compiled form of every child in the given order, and the
\* closing operator element; a child that is itself a compound is compiled
\* into its own nested operator element with its own children.
C24_CompoundRecurses ==
    (pc[1] # "idle" /\ qdOf[1] = 1 /\ IsUndefined(AsGiven.query)
        /\ ~IsUndefined(AsGiven.where) /\ ~IsUndefined(AsGiven.listColumns)) =>
        LET where == AsGiven.where IN
        (~IsUndefined(where.values) /\ LeavesTyped(where)) =>
            /\ sent[1] # <<>>
            /\ Predicate(FirstQuery(1)) = Nested(where)

\* where the first occurrence of lit in q ends, plus one
After(q, lit) == Nth(Occurrences(q, lit), 1) + Len(lit)

\* the head of the join section: the join of the given direction with the
\* foreign list, binding joinColumn to the ID of the foreign list
JoinHead(join) ==
    sJoinType \o JsToString(join.direction) \o sListAlias \o JsToString(join.list)
    \o sJoinEqFieldRef \o JsToString(join.joinColumn) \o sRefTypeIdList
    \o JsToString(join.list) \o sJoinClose

\* sec lists the columns getColumns of the foreign list, in the given order
ListsProjectedFields(sec, join) ==
    LET cols   == join.getColumns.arr
        fields == Occurrences(sec, sFieldShowField)
    IN  /\ Cardinality(fields) = Len(cols)
        /\ \A k \in 1..Len(cols) :
              StartsAt(sec, Nth(fields, k),
                       sFieldShowField \o JsToString(cols[k]) \o sTypeLookupName
                       \o JsToString(cols[k]) \o sList \o JsToString(join.list)
                       \o sFieldEnd)

\* C25: for a descriptor without a raw query, the compiled query is, in this
\* order: the view wrapper with recursive scope, the projection section, the
\* predicate section if and only if where is present, the join section
\* binding joinColumn to the foreign list's ID followed by the projected
\* fields listing getColumns in order if and only if join is present, and the
\* closing of the wrapper.
C25_SectionsInOrder ==
    (BuiltQuery(1) /\ qdOf[1] = 1) =>
        LET q        == FirstQuery(1)
            qd       == AsGiven
            hasWhere == ~IsUndefined(qd.where)
            hasJoin  == ~IsUndefined(qd.join)
            whereAt  == After(q, sViewFieldsClose)
            joinAt   == IF hasWhere THEN After(q, sWhereQueryClose) ELSE whereAt
            closeAt  == IF hasJoin THEN After(q, sProjectedFieldsClose) ELSE joinAt
        IN  /\ StartsAt(q, 1, sViewOpen \o sViewFieldsOpen)
            /\ Contains(q, sViewFieldsClose)
            /\ Contains(q, sQueryWhereOpen) <=> hasWhere
            /\ hasWhere => /\ StartsAt(q, whereAt, sQueryWhereOpen)
                           /\ Cardinality(Occurrences(q, sWhereQueryClose)) = 1
            /\ Contains(q, sJoinType) <=> hasJoin
            /\ Contains(q, sProjectedFieldsOpen) <=> hasJoin
            /\ hasJoin =>
                  /\ StartsAt(q, joinAt, JoinHead(qd.join) \o sProjectedFieldsOpen)
                  /\ Cardinality(Occurrences(q, sProjectedFieldsClose)) = 1
                  /\ ListsProjectedFields(
                        Between(q, sProjectedFieldsOpen, sProjectedFieldsClose, 1),
                        qd.join)
            /\ StartsAt(q, closeAt, sViewClose)
            /\ closeAt + Len(sViewClose) - 1 = Len(q)

C25_Witness ==
    /\ BuiltQuery(1) /\ qdOf[1] = 1
    /\ ~IsUndefined(AsGiven.where)
    /\ ~IsUndefined(AsGiven.join)
    /\ Len(AsGiven.join.getColumns.arr) = 2
    /\ Contains(FirstQuery(1), sWhereQueryClose \o JoinHead(AsGiven.join))

-----------------------------------------------------------------------------
(* Properties of the User and the plain columns *)

IsUserColumn(d) == d.Type.t = "String" /\ ToLowerCase(d.Type.str) = sUser

\* the value written is the list of one identity reference per user, in order
IsUserList(value, users) ==
    /\ value.t = "Array"
    /\ Len(value.arr) = Len(users)
    /\ \A j \in 1..Len(users) :
          /\ value.arr[j].t = "FieldUserValue"
          /\ value.arr[j].user.t = users[j].t
          /\ value.arr[j].user = users[j]

\* the call passed the first check of the operation
ValidWrite ==
    /\ writePc # "idle"
    /\ ~IsUndefined(itemDetails.listName)
    /\ ~IsUndefined(itemDetails.columnData)
    /\ writeOp = "addListItem" \/ ~IsUndefined(itemDetails.itemID)

\* the column at which the loop over columnData stopped, 0 if it went through
StoppedAt ==
    IF writePc = "threw" /\ Len(spItem) < Len(ColumnEntries) THEN Len(spItem) + 1 ELSE 0

\* C26: a User column whose Value is a single string is written as a list
\* with exactly one identity reference for that string; a User column whose
\* Value is a sequence is written as one identity reference per element, in
\* the given order and of the same length; in addListItem and in
\* updateListItem alike, and no such column makes the operation fail.
C26_UserListInOrder ==
    ValidWrite =>
        /\ \A i \in 1..Len(spItem) :
              LET d == ColumnEntries[i].column IN
              IsUserColumn(d) =>
                  /\ d.Value.t = "String" => IsUserList(spItem[i].value, <<d.Value>>)
                  /\ d.Value.t = "Array" => IsUserList(spItem[i].value, d.Value.arr)
        /\ StoppedAt # 0 =>
              LET d == ColumnEntries[StoppedAt].column IN
              ~(IsUserColumn(d) /\ d.Value.t \in {"String", "Array"})

C26_Witness ==
    /\ writeOp = "addListItem"
    /\ WroteAll
    /\ Len(spItem) = 1
    /\ IsUserColumn(ColumnEntries[1].column)
    /\ ColumnEntries[1].column.Value = Arr(<<Str(sAda), Str(sBob)>>)
    /\ spItem[1].value = Arr(<<FieldUserValue(Str(sAda)), FieldUserValue(Str(sBob))>>)

\* the type tag of d is none of url, lookup and user, in any letter case
IsPlainColumn(d) ==
    /\ d.Type.t = "String"
    /\ ToLowerCase(d.Type.str) \notin {sUrl, sLookup, sUser}

\* C27: a column whose type tag is none of url, lookup and user, in any
\* letter case, is set to the descriptor's Value unchanged and never makes
\* the operation fail; an operation that sends its request has set every
\* column of columnData exactly once, under its own key; in addListItem and
\* in updateListItem alike.
C27_PlainValueUnchanged ==
    ValidWrite =>
        /\ Len(spItem) <= Len(ColumnEntries)
        /\ \A i \in 1..Len(spItem) :
              LET d == ColumnEntries[i].column IN
              /\ spItem[i].key = ColumnEntries[i].key
              /\ IsPlainColumn(d) =>
                    spItem[i].value.t = d.Value.t /\ spItem[i].value = d.Value
        /\ writePc \in {"sent", "done"} => Len(spItem) = Len(ColumnEntries)
        /\ StoppedAt # 0 => ~IsPlainColumn(ColumnEntries[StoppedAt].column)

C27_Witness ==
    /\ writeOp = "updateListItem"
    /\ WroteAll
    /\ Len(spItem) = 2
    /\ IsPlainColumn(ColumnEntries[1].column) /\ IsPlainColumn(ColumnEntries[2].column)
    /\ spItem[1] = [key |-> sDept, value |-> Str(sHome)]
    /\ spItem[2] = [key |-> sSite, value |-> Num(42)]

-----------------------------------------------------------------------------
(* Batching and the lookup marker *)

\* C28: for an In leaf of type Lookup with numeric values, the field
\* reference of every membership clause carries LookupId='TRUE', when the
\* leaf has more than 60 values as when it has at most 60.
C28_BatchedInKeepsLookupId ==
    IsInLeaf(1) =>
        LET where == Descriptor(1).where
            p     == Predicate(FirstQuery(1))
            refs  == Occurrences(p, sFieldRefName)
        IN  (/\ IsLookupType(where.type)
             /\ where.value.arr # <<>>
             /\ \A i \in 1..Len(where.value.arr) : IsNumeric(where.value.arr[i])) =>
                /\ refs # {}
                /\ \A k \in 1..Cardinality(refs) :
                      HasLookupId(p, k, JsToString(where.column))

-----------------------------------------------------------------------------
(* Properties of searchUsers *)

\* the lookups whose continuation has fired
FiredLookups == {fired[k].i : k \in 1..Len(fired)}

\* the profiles the lookups returned, null left out, in the order they came
RECURSIVE NonNullProfiles(_)
NonNullProfiles(answered) ==
    IF answered = <<>> THEN <<>>
    ELSE LET front == NonNullProfiles(SubSeq(answered, 1, Len(answered) - 1))
             last  == answered[Len(answered)]
         IN  IF last.ok /\ last.profile.t # "Null"
             THEN Append(front, last.profile)
             ELSE front

\* every lookup has run its success continuation
AllSucceeded ==
    /\ lookups = {}
    /\ \A k \in 1..Len(fired) : fired[k].ok

-----------------------------------------------------------------------------
(* Properties of spRibbon().removeEdit *)

\* every attempt of call r found the ribbon not yet available
FoundLoading(r) == \A k \in 1..Len(seen[r]) : seen[r][k] = "loading"

\* C30: removeEdit makes up to 3 further attempts when the ribbon is not yet
\* available: its promise is rejected only with the 'took too long' message
\* and only when the first attempt and the 3 further ones all found no
\* ribbon, and the promise is settled at most once.
C30_RetriesBeforeRejecting ==
    \A r \in RibbonCalls :
        /\ ribbonResolved[r] + Len(ribbonRejected[r]) <= 1
        /\ (ribbonRejected[r] # <<>> /\ FoundLoading(r)) =>
              /\ ribbonRejected[r] = <<Str(sTookTooLong)>>
              /\ Len(seen[r]) = Attempts + 1

=============================================================================
